---- MODULE Spec2Model ----
(***************************************************************************)
(* State-machine model of spend-watch-ph: the conversation memory (the     *)
(* zustand chat store driven by ChatPanel, and the conversationMemory      *)
(* state of App.tsx) with its streamed chat turns, the API-key validation  *)
(* flows, the contract search / count queries of the DuckDB service, the   *)
(* parquet load and the paging of the contract list.                       *)
(*                                                                         *)
(* Texts are sequences of words: '' is <<>>, a JS null is the value Null,  *)
(* string concatenation is \o.                                             *)
(***************************************************************************)
EXTENDS Integers, Sequences, FiniteSets, TLC

VARIABLES
    mounted,              \* which chat UI runs: "ChatPanel" (stores) or "App" (App.tsx)
    restored,             \* number of messages of the conversation the session starts with
    nextId,               \* generateId(): ids are never reused
    messages,             \* chat store: messages
    isLoading,            \* chat store: isLoading
    error,                \* chat store: error
    conversationSummary,  \* chat store: conversationSummary
    totalTokensUsed,      \* chat store: totalTokensUsed
    request,              \* ChatPanel / App: message list of the chat request in flight
    requestsInFlight,     \* chat completion requests issued and not yet ended
    fullContent,          \* the text accumulated from the stream (fullResponse, fullContent)
    streamingContent,     \* ChatPanel / App: streamingContent, the text shown while streaming
    renderedMessages,     \* ChatPanel: the messages of the render the running handleSend closed over
    summaryRequest,       \* the summarization request issued last: transcript, conversation
    pendingSummaries,     \* ChatPanel: summarizeConversation calls in flight
    conversationMemory,   \* App.tsx: [recentMessages, summary]
    appIsLoading,         \* App.tsx: isLoading
    appPc,                \* App.tsx handleChat position: idle, streaming, summarizing
    closure,              \* App.tsx handleChat: values captured by the running call
    errorCount,           \* failed chat requests so far
    clearCount,           \* clear-conversation actions so far
    lastOp,               \* the step taken last, with what it returned
    apiKey,               \* API-key store: apiKey
    isValidated,          \* API-key store: isValidated
    isValidating,         \* API-key store: isValidating
    validationError,      \* API-key store: validationError
    lastValidated,        \* API-key store: lastValidated (the time of the attempt)
    appApiKey,            \* App.tsx: apiKey
    isValidatingKey,      \* App.tsx: isValidatingKey
    keyError,             \* App.tsx: keyError
    showApiKeyModal,      \* App.tsx: showApiKeyModal
    keyCandidate,         \* the key of the validation request in flight
    keyAttempts,          \* submissions of a key so far (the clock of lastValidated)
    lastKeyOp,            \* the key-validation step taken last
    dbTable,              \* DuckDB: the rows of table contracts
    dbOptions,            \* the filters of the query being read: query, area, category
    dbLimit,              \* its page size (LIMIT)
    dbOffset,             \* the OFFSET of the next page
    dbRows,               \* the rows searchContracts returned so far, page after page
    dbCount,              \* what getContractCount returned for the same filters
    dbPage,               \* the search call that returned last: its arguments and rows
    dbPc,                 \* idle, paging, done
    isDataLoading,        \* App.tsx: isDataLoading
    dataLoaded,           \* App.tsx: dataLoaded
    dataError,            \* App.tsx: dataError
    loadEntry,            \* loadData in flight: "file" or "demo"; "none" when idle
    loadAttempts,         \* load calls started so far
    lastLoad,             \* the load call that settled last: entry point, outcome, result
    searchQuery,          \* App.tsx: searchQuery
    selectedProvince,     \* App.tsx: selectedProvince
    currentPage,          \* App.tsx: currentPage (0-based)
    contracts,            \* App.tsx: contracts, the rows displayed
    totalFilteredCount,   \* App.tsx: totalFilteredCount
    inFlight,             \* App.tsx: searchContractsHandler calls awaiting their queries
    lastIssued,           \* App.tsx: the searchContractsHandler call issued last
    pageOp,               \* the paging step taken last
    storeContracts,       \* data store: contracts
    storeFilters,         \* data store: filters
    storeCurrentPage,     \* data store: currentPage (1-based)
    storePageSize,        \* data store: pageSize
    filteredContracts,    \* data store: filteredContracts
    categoryStats,        \* data store: categoryStats, by category
    areaStats,            \* data store: areaStats, by area
    engineDb,             \* query engine: db (the instance's number; 0 is null)
    engineConn,           \* query engine: connection (the instance it connects to; 0 is null)
    engineInitialized,    \* App.tsx DuckDBService: initialized
    enginesCreated,       \* engine instances (worker, database) created so far
    initCallers,          \* the callers of initialize / load: where each one stands
    wireEvents,           \* response stream: the content_block_delta texts the server sends
    wireChunks,           \* response stream: the network chunks not read yet
    fullResponse,         \* streamClaudeMessage: fullResponse (App.tsx: fullContent)
    streamPc,             \* where the streaming call stands
    callbackTrace,        \* the callbacks streamClaudeMessage has invoked, in order
    committedText         \* the assistant text handed over for the turn

vars == <<mounted, restored, nextId, messages, isLoading, error, conversationSummary,
          totalTokensUsed, request, requestsInFlight, fullContent, streamingContent,
          renderedMessages, summaryRequest,
          pendingSummaries, conversationMemory,
          appIsLoading, appPc, closure, errorCount, clearCount, lastOp,
          apiKey, isValidated, isValidating, validationError, lastValidated,
          appApiKey, isValidatingKey, keyError, showApiKeyModal, keyCandidate,
          keyAttempts, lastKeyOp,
          dbTable, dbOptions, dbLimit, dbOffset, dbRows, dbCount, dbPage, dbPc,
          isDataLoading, dataLoaded, dataError, loadEntry, loadAttempts, lastLoad,
          searchQuery, selectedProvince, currentPage, contracts, totalFilteredCount,
          inFlight, lastIssued, pageOp,
          storeContracts, storeFilters, storeCurrentPage, storePageSize, filteredContracts,
          categoryStats, areaStats,
          engineDb, engineConn, engineInitialized, enginesCreated, initCallers,
          wireEvents, wireChunks, fullResponse, streamPc, callbackTrace, committedText>>

storeVars == <<messages, isLoading, error, conversationSummary, totalTokensUsed,
               pendingSummaries>>
appVars == <<conversationMemory, appIsLoading, appPc, closure>>
streamVars == <<requestsInFlight, fullContent, streamingContent>>
summaryVars == <<renderedMessages, summaryRequest>>
convVars == <<restored, nextId, messages, isLoading, error, conversationSummary,
              totalTokensUsed, request, streamVars, summaryVars, pendingSummaries,
              conversationMemory,
              appIsLoading, appPc, closure, errorCount, clearCount, lastOp>>
keyStoreVars == <<apiKey, isValidated, isValidating, validationError, lastValidated>>
keyAppVars == <<appApiKey, isValidatingKey, keyError, showApiKeyModal>>
dbVars == <<dbTable, dbOptions, dbLimit, dbOffset, dbRows, dbCount, dbPage, dbPc>>
keyVars == <<apiKey, isValidated, isValidating, validationError, lastValidated,
             appApiKey, isValidatingKey, keyError, showApiKeyModal, keyCandidate,
             keyAttempts, lastKeyOp>>
loadVars == <<isDataLoading, dataLoaded, dataError, loadEntry, loadAttempts, lastLoad>>
pageAppVars == <<searchQuery, selectedProvince, currentPage, contracts, totalFilteredCount,
                 inFlight, lastIssued>>
pageStoreVars == <<storeContracts, storeFilters, storeCurrentPage, storePageSize,
                   filteredContracts, categoryStats, areaStats>>
pageVars == <<pageAppVars, pageStoreVars, pageOp>>
engineVars == <<engineDb, engineConn, engineInitialized, enginesCreated, initCallers>>
wireVars == <<wireEvents, wireChunks, fullResponse, streamPc, callbackTrace,
              committedText>>
notConvVars == <<keyVars, dbVars, loadVars, pageVars, engineVars, wireVars>>
notKeyVars == <<mounted, convVars, dbVars, loadVars, pageVars, engineVars, wireVars>>
notDbVars == <<mounted, convVars, keyVars, loadVars, pageVars, engineVars, wireVars>>
notLoadVars == <<mounted, convVars, keyVars, dbVars, pageVars, engineVars, wireVars>>
notPageVars == <<mounted, convVars, keyVars, dbVars, loadVars, engineVars, wireVars>>
notEngineVars == <<mounted, convVars, keyVars, dbVars, loadVars, pageVars, wireVars>>
notWireVars == <<mounted, convVars, keyVars, dbVars, loadVars, pageVars, engineVars>>

----------------------------------------------------------------------------
(* Bounds of the model *)

MaxNew == 8
MaxErrors == 1
MaxClears == 1
MaxPending == 1
MaxTokens == 6000
MaxKeyAttempts == 3
MaxRows == 3
MaxInFlight == 2
MaxLoads == 2
MaxCallers == 2
MaxEvents == 2
MaxCuts == 2

(* Program constants *)

MAX_CHAT_HISTORY == 50
MAX_CONTEXT_TOKENS == 8000
SUMMARIZE_LENGTH == 15
API_SUMMARY_CUTOFF == 10
API_SUMMARY_RECENT == 6
API_PLAIN_RECENT == 20
BUFFER_WINDOW_SIZE == 8
SUMMARIZE_THRESHOLD == 12
MAX_STORED_MESSAGES == 50
MIN_SUMMARY_MESSAGES == 4
MIN_TO_SUMMARIZE == 2

Null == <<"null">>
Falsy(text) == text = Null \/ text = <<>>

Min(a, b) == IF a < b THEN a ELSE b
Max(a, b) == IF a > b THEN a ELSE b

(* Array.prototype.slice(start) and slice(start, end) with negative indices *)
RelIndex(n, i) == IF i < 0 THEN Max(n + i, 0) ELSE Min(i, n)
slice(s, start, end) == SubSeq(s, RelIndex(Len(s), start) + 1, RelIndex(Len(s), end))
sliceFrom(s, start) == slice(s, start, Len(s))

outcomeName(outcome) ==
    IF outcome = Null THEN "summarizeFailed"
    ELSE IF outcome = <<>> THEN "summarizeEmpty" ELSE "summarizeOk"

(* Inputs *)
UsageChoices == {0, 3000}
SummaryTexts == {<<"s1">>, <<"s2">>}
ErrorTexts == {<<"API error: 500">>}

ChatMessage(id, role, content) == [id |-> id, role |-> role, content |-> content]
userText(id) == <<"q", ToString(id)>>
assistantText(id) == <<"a", ToString(id)>>
storeGreeting(id) == ChatMessage(id, "assistant", <<"greeting">>)
storeCleared(id) == ChatMessage(id, "assistant", <<"cleared">>)

----------------------------------------------------------------------------
(* The chat store (useChatStore) *)

addMessageNoTrim(msgs, newMessage) == Append(msgs, newMessage)

addMessage(msgs, newMessage) ==
    LET updatedMessages == Append(msgs, newMessage)
    IN  IF Len(updatedMessages) > MAX_CHAT_HISTORY
        THEN sliceFrom(updatedMessages, -MAX_CHAT_HISTORY)
        ELSE updatedMessages

addTokenUsageOverwrite(total, tokens) == tokens

addTokenUsage(total, tokens) == total + tokens

updateSummaryConcat(old, summary) == IF old = Null THEN summary ELSE old \o summary

updateSummary(old, summary) == summary

clearedStoreKeepTokens(prev, id) ==
    [prev EXCEPT !.messages = <<storeCleared(id)>>, !.conversationSummary = Null,
                 !.error = Null]

(* clearMessages: set({messages: [cleared], conversationSummary: null,
   totalTokensUsed: 0, error: null}) merged into the previous state *)
clearedStore(prev, id) ==
    [prev EXCEPT !.messages = <<storeCleared(id)>>, !.conversationSummary = Null,
                 !.totalTokensUsed = 0, !.error = Null]

apiEntry(m) == [role |-> m.role, content |-> m.content]
summaryEntry(summary) ==
    [role |-> "user",
     content |-> <<"[Previous conversation summary: ">> \o summary \o <<"]">>]
mapEntries(s) == [i \in 1..Len(s) |-> apiEntry(s[i])]
isChatRole(m) == m.role = "user" \/ m.role = "assistant"

getMessagesForAPIAll(msgs, summary) == mapEntries(SelectSeq(msgs, isChatRole))

getMessagesForAPI(msgs, summary) ==
    LET filtered == SelectSeq(msgs, isChatRole)
    IN  IF ~Falsy(summary) /\ Len(filtered) > API_SUMMARY_CUTOFF
        THEN <<summaryEntry(summary)>> \o mapEntries(sliceFrom(filtered, -API_SUMMARY_RECENT))
        ELSE mapEntries(sliceFrom(filtered, -API_PLAIN_RECENT))

shouldSummarizeAtLeast(msgs, summary, total) ==
    Len(msgs) >= SUMMARIZE_LENGTH /\ (Falsy(summary) \/ total * 10 > MAX_CONTEXT_TOKENS * 7)

shouldSummarize(msgs, summary, total) ==
    Len(msgs) > SUMMARIZE_LENGTH /\ (Falsy(summary) \/ total * 10 > MAX_CONTEXT_TOKENS * 7)

----------------------------------------------------------------------------
(* Initial state: one of the two chat UIs is mounted, on a conversation that is
   new (the greeting alone) or that already holds earlier turns *)

NoSummaryRequest == [issued |-> FALSE, transcript |-> <<>>, conversation |-> <<>>]
SummaryRequest(transcript, all) ==
    [issued |-> TRUE, transcript |-> transcript, conversation |-> all]

DEFAULT_MEMORY == [recentMessages |-> <<>>, summary |-> <<>>]
NoClosure == [updatedMessages |-> <<>>, summary |-> <<>>, allMessages |-> <<>>]

InitLengths == {1, 9, 45}
turns(n) ==
    [i \in 1..n |-> IF i = 1 THEN storeGreeting(1)
                    ELSE IF i % 2 = 0 THEN ChatMessage(i, "user", userText(i))
                    ELSE ChatMessage(i, "assistant", assistantText(i))]
InitSummaries(n, none) == IF n > SUMMARIZE_LENGTH THEN {none, <<"s1">>} ELSE {none}

(* used: the ids generateId has handed out since the conversation was restored *)
InitConversationAt(lengths, used) ==
    /\ restored \in lengths
    /\ nextId = restored + 1 + used
    /\ IF mounted = "ChatPanel"
       THEN /\ messages = turns(restored)
            /\ conversationSummary \in InitSummaries(restored, Null)
            /\ conversationMemory = DEFAULT_MEMORY
       ELSE /\ messages = <<>>
            /\ conversationSummary = Null
            /\ \E summary \in InitSummaries(restored, <<>>) :
                 conversationMemory = [recentMessages |-> turns(restored), summary |-> summary]
    /\ isLoading = FALSE
    /\ error = Null
    /\ totalTokensUsed = 0
    /\ request = <<>>
    /\ requestsInFlight = 0
    /\ fullContent = <<>>
    /\ streamingContent = <<>>
    /\ renderedMessages = <<>>
    /\ summaryRequest = NoSummaryRequest
    /\ pendingSummaries = 0
    /\ appIsLoading = FALSE
    /\ appPc = "idle"
    /\ closure = NoClosure
    /\ errorCount = 0
    /\ clearCount = 0
    /\ lastOp = [op |-> "init", text |-> <<>>, before |-> <<>>, tokens |-> 0]

InitConversation(lengths) == InitConversationAt(lengths, 0)

NoKeyOp == [op |-> "init", response |-> <<>>, key |-> <<>>, before |-> <<>>,
            returned |-> "none"]

(* the key state: no key yet (the stores' initial values), or a key validated and
   saved by an earlier submission *)
StoredKey == <<"sk-ant-", "1">>
InitKeysAt(saved, attempts) ==
    /\ apiKey = IF saved THEN StoredKey ELSE Null
    /\ isValidated = saved
    /\ isValidating = FALSE
    /\ validationError = Null
    /\ lastValidated = IF saved THEN 1 ELSE 0
    /\ appApiKey = IF saved THEN StoredKey ELSE <<>>
    /\ isValidatingKey = FALSE
    /\ keyError = Null
    /\ showApiKeyModal = FALSE
    /\ keyCandidate = <<>>
    /\ keyAttempts = attempts
    /\ lastKeyOp = NoKeyOp

InitKeys(saved) == InitKeysAt(saved, IF saved THEN 1 ELSE 0)

NoOptions == [query |-> <<>>, area |-> <<>>, category |-> <<>>]

NoPage == [service |-> "none", options |-> NoOptions, limit |-> 0, offset |-> 0,
           rows |-> <<>>]

InitDbIdle ==
    /\ dbOptions = NoOptions
    /\ dbPage = NoPage
    /\ dbLimit = 0
    /\ dbOffset = 0
    /\ dbRows = <<>>
    /\ dbCount = 0
    /\ dbPc = "idle"

(* a caller of the engine: idle, or inside initialize (awaiting selectBundle,
   instantiate, connect), or returned *)
IdleCaller == [pc |-> "idle", kind |-> "none", connectTo |-> 0, connection |-> 0,
               result |-> "none"]

InitEngineIdle ==
    /\ engineDb = 0
    /\ engineConn = 0
    /\ engineInitialized = FALSE
    /\ enginesCreated = 0
    /\ initCallers = [c \in 1..MaxCallers |-> IdleCaller]

InitWireIdle ==
    /\ wireEvents = <<>>
    /\ wireChunks = <<>>
    /\ fullResponse = <<>>
    /\ streamPc = "idle"
    /\ callbackTrace = <<>>
    /\ committedText = <<>>

NoPageOp == [op |-> "init", options |-> NoOptions, fromPage |-> 0]
initialFilters == [searchQuery |-> <<>>, sortDirection |-> "desc"]

(* PAGE_SIZE is 50 in App.tsx; the model's tables hold a few rows, and a page holds
   this many of them *)
PAGE_SIZE == 1

(* query: searchQuery || undefined, area: selectedProvince || undefined *)
handlerOptions(query, province) ==
    [query |-> query, area |-> IF Falsy(province) THEN <<>> ELSE province,
     category |-> <<>>]

(* a call of searchContractsHandler as rendered: it reads the filters and the page
   index of the render that created it *)
HandlerCall(trigger, query, province, page) ==
    [trigger |-> trigger, options |-> handlerOptions(query, province),
     offset |-> page * PAGE_SIZE, fromPage |-> page]

(* the search loadData runs for the first page: no filter, offset 0 *)
InitialSearch == HandlerCall("load", <<>>, Null, 0)

InitPageIdle ==
    /\ searchQuery = <<>>
    /\ selectedProvince = Null
    /\ currentPage = 0
    /\ contracts = <<>>
    /\ totalFilteredCount = 0
    /\ inFlight = <<>>
    /\ lastIssued = InitialSearch
    /\ pageOp = NoPageOp
    /\ storeContracts = <<>>
    /\ storeFilters = initialFilters
    /\ storeCurrentPage = 1
    /\ storePageSize = 20
    /\ filteredContracts = <<>>
    /\ categoryStats = <<>>
    /\ areaStats = <<>>

NoLoad == [entry |-> "none", outcome |-> <<>>, thrown |-> FALSE, value |-> 0,
           message |-> <<>>]

InitLoadAt(attempts) ==
    /\ isDataLoading = FALSE
    /\ dataLoaded = FALSE
    /\ dataError = Null
    /\ loadEntry = "none"
    /\ loadAttempts = attempts
    /\ lastLoad = NoLoad

InitLoadIdle == InitLoadAt(0)

Init ==
    /\ mounted \in {"ChatPanel", "App"}
    /\ InitConversation(InitLengths)
    /\ InitKeys(TRUE)
    /\ dbTable = {}
    /\ InitDbIdle
    /\ InitEngineIdle
    /\ InitWireIdle
    /\ InitLoadIdle
    /\ InitPageIdle


(* lastOp: the step taken last, the text it returned (the end of a summarization
   request), and the summary and token count stored before the step *)
OpText(name, text) ==
    [op |-> name, text |-> text,
     before |-> IF mounted = "ChatPanel" THEN conversationSummary
                ELSE conversationMemory.summary,
     tokens |-> totalTokensUsed]
Op(name) == OpText(name, <<>>)

----------------------------------------------------------------------------
(* The response stream of a chat request: the text answering the request's last user
   entry, delivered in content_block_delta chunks of one word or more *)

responseText(req) == <<"a", req[Len(req)].content[2]>>

nextChunks(req, received) ==
    {SubSeq(responseText(req), Len(received) + 1, Len(received) + k) :
        k \in 1..(Len(responseText(req)) - Len(received))}

----------------------------------------------------------------------------
(* ChatPanel.handleSend and its callbacks *)

handleSendUnguarded ==
    /\ mounted = "ChatPanel"
    /\ renderedMessages' = messages
    /\ UNCHANGED summaryRequest
    /\ apiKey # Null /\ isValidated
    /\ nextId + 1 <= restored + MaxNew
    /\ LET userMessage == userText(nextId)
           added == addMessage(messages, ChatMessage(nextId, "user", userMessage))
       IN  /\ messages' = added
           /\ request' = Append(getMessagesForAPI(added, conversationSummary),
                                [role |-> "user", content |-> userMessage])
    /\ isLoading' = TRUE
    /\ error' = Null
    /\ streamingContent' = <<>>
    /\ fullContent' = <<>>
    /\ requestsInFlight' = requestsInFlight + 1
    /\ nextId' = nextId + 1
    /\ lastOp' = Op("handleSend")
    /\ UNCHANGED <<mounted, restored, conversationSummary, totalTokensUsed, pendingSummaries,
                   errorCount, clearCount>>
    /\ UNCHANGED <<appVars, notConvVars>>

handleSend ==
    /\ mounted = "ChatPanel"
    /\ renderedMessages' = messages
    /\ UNCHANGED summaryRequest
    /\ ~isLoading
    /\ apiKey # Null /\ isValidated
    /\ nextId + 1 <= restored + MaxNew
    /\ LET userMessage == userText(nextId)
           added == addMessage(messages, ChatMessage(nextId, "user", userMessage))
       IN  /\ messages' = added
           /\ request' = Append(getMessagesForAPI(added, conversationSummary),
                                [role |-> "user", content |-> userMessage])
    /\ isLoading' = TRUE
    /\ error' = Null
    /\ streamingContent' = <<>>
    /\ fullContent' = <<>>
    /\ requestsInFlight' = requestsInFlight + 1
    /\ nextId' = nextId + 1
    /\ lastOp' = Op("handleSend")
    /\ UNCHANGED <<mounted, restored, conversationSummary, totalTokensUsed, pendingSummaries,
                   errorCount, clearCount>>
    /\ UNCHANGED <<appVars, notConvVars>>

(* handleSend called while a turn is loading: it returns at once *)
handleSendWhileLoading ==
    /\ mounted = "ChatPanel"
    /\ UNCHANGED summaryVars
    /\ isLoading
    /\ lastOp' = Op("handleSendIgnored")
    /\ UNCHANGED <<mounted, restored, nextId, messages, isLoading, error, conversationSummary,
                   totalTokensUsed, request, streamVars, pendingSummaries, errorCount,
                   clearCount>>
    /\ UNCHANGED <<appVars, notConvVars>>

(* streamClaudeMessage reads a content_block_delta: fullResponse += text, then
   onToken(text) appends it to streamingContent *)
onTokenCommitsChunk ==
    /\ mounted = "ChatPanel"
    /\ UNCHANGED summaryVars
    /\ request # <<>>
    /\ \E text \in nextChunks(request, fullContent) :
        /\ fullContent' = fullContent \o text
        /\ streamingContent' = streamingContent \o text
        /\ messages' = addMessage(messages, ChatMessage(nextId, "assistant", text))
        /\ lastOp' = OpText("onToken", text)
    /\ UNCHANGED <<mounted, restored, nextId, isLoading, error, conversationSummary,
                   totalTokensUsed, request, requestsInFlight, pendingSummaries, errorCount,
                   clearCount>>
    /\ UNCHANGED <<appVars, notConvVars>>

onToken ==
    /\ mounted = "ChatPanel"
    /\ UNCHANGED summaryVars
    /\ request # <<>>
    /\ \E text \in nextChunks(request, fullContent) :
        /\ fullContent' = fullContent \o text
        /\ streamingContent' = streamingContent \o text
        /\ lastOp' = OpText("onToken", text)
    /\ UNCHANGED <<mounted, restored, nextId, messages, isLoading, error, conversationSummary,
                   totalTokensUsed, request, requestsInFlight, pendingSummaries, errorCount,
                   clearCount>>
    /\ UNCHANGED <<appVars, notConvVars>>

onComplete ==
    /\ mounted = "ChatPanel"
    /\ renderedMessages' = <<>>
    /\ request # <<>>
    /\ fullContent = responseText(request)
    /\ nextId <= restored + MaxNew
    /\ \E usage \in UsageChoices :
        /\ totalTokensUsed + usage <= MaxTokens
        /\ LET added == addMessage(messages, ChatMessage(nextId, "assistant", fullContent))
               total == addTokenUsage(totalTokensUsed, usage)
           IN  /\ messages' = added
               /\ totalTokensUsed' = total
               /\ IF shouldSummarize(added, conversationSummary, total)
                  THEN /\ pendingSummaries < MaxPending
                       /\ pendingSummaries' = pendingSummaries + 1
                       /\ summaryRequest' = SummaryRequest(renderedMessages, added)
                       /\ lastOp' = Op("onCompleteSummarize")
                  ELSE /\ UNCHANGED <<pendingSummaries, summaryRequest>>
                       /\ lastOp' = Op("onComplete")
    /\ isLoading' = FALSE
    /\ request' = <<>>
    /\ streamingContent' = <<>>
    /\ fullContent' = <<>>
    /\ requestsInFlight' = requestsInFlight - 1
    /\ nextId' = nextId + 1
    /\ UNCHANGED <<mounted, restored, error, conversationSummary, errorCount, clearCount>>
    /\ UNCHANGED <<appVars, notConvVars>>

onErrorKeepsLoading ==
    /\ mounted = "ChatPanel"
    /\ renderedMessages' = <<>>
    /\ UNCHANGED summaryRequest
    /\ request # <<>>
    /\ errorCount < MaxErrors
    /\ \E message \in ErrorTexts : error' = message
    /\ UNCHANGED isLoading
    /\ request' = <<>>
    /\ streamingContent' = <<>>
    /\ fullContent' = <<>>
    /\ requestsInFlight' = requestsInFlight - 1
    /\ errorCount' = errorCount + 1
    /\ UNCHANGED clearCount
    /\ lastOp' = Op("onError")
    /\ UNCHANGED <<mounted, restored, nextId, messages, conversationSummary, totalTokensUsed,
                   pendingSummaries>>
    /\ UNCHANGED <<appVars, notConvVars>>

onError ==
    /\ mounted = "ChatPanel"
    /\ renderedMessages' = <<>>
    /\ UNCHANGED summaryRequest
    /\ request # <<>>
    /\ errorCount < MaxErrors
    /\ \E message \in ErrorTexts : error' = message
    /\ isLoading' = FALSE
    /\ request' = <<>>
    /\ streamingContent' = <<>>
    /\ fullContent' = <<>>
    /\ requestsInFlight' = requestsInFlight - 1
    /\ errorCount' = errorCount + 1
    /\ UNCHANGED clearCount
    /\ lastOp' = Op("onError")
    /\ UNCHANGED <<mounted, restored, nextId, messages, conversationSummary, totalTokensUsed,
                   pendingSummaries>>
    /\ UNCHANGED <<appVars, notConvVars>>

(* summarizeConversation resolves: sendClaudeMessage returns
   data.content?.[0]?.text || '' *)
summarizeResolved ==
    /\ mounted = "ChatPanel"
    /\ UNCHANGED summaryVars
    /\ pendingSummaries > 0
    /\ \E text \in SummaryTexts \cup {<<>>} :
        /\ conversationSummary' = updateSummary(conversationSummary, text)
        /\ lastOp' = OpText(outcomeName(text), text)
    /\ pendingSummaries' = pendingSummaries - 1
    /\ UNCHANGED <<mounted, restored, nextId, messages, isLoading, error, totalTokensUsed,
                   request, streamVars, errorCount, clearCount>>
    /\ UNCHANGED <<appVars, notConvVars>>

(* summarizeConversation rejects (network error, non-OK status): caught and logged *)
summarizeRejected ==
    /\ mounted = "ChatPanel"
    /\ UNCHANGED summaryVars
    /\ pendingSummaries > 0
    /\ pendingSummaries' = pendingSummaries - 1
    /\ lastOp' = OpText("summarizeFailed", Null)
    /\ UNCHANGED <<mounted, restored, nextId, messages, isLoading, error, conversationSummary,
                   totalTokensUsed, request, streamVars, errorCount, clearCount>>
    /\ UNCHANGED <<appVars, notConvVars>>

clearMessages ==
    /\ mounted = "ChatPanel"
    /\ UNCHANGED summaryVars
    /\ Len(messages) > 1
    /\ nextId + requestsInFlight <= restored + MaxNew
    /\ clearCount < MaxClears
    /\ clearCount' = clearCount + 1
    /\ LET prev == [messages |-> messages, conversationSummary |-> conversationSummary,
                    totalTokensUsed |-> totalTokensUsed, error |-> error]
           cleared == clearedStore(prev, nextId)
       IN  /\ messages' = cleared.messages
           /\ conversationSummary' = cleared.conversationSummary
           /\ totalTokensUsed' = cleared.totalTokensUsed
           /\ error' = cleared.error
    /\ nextId' = nextId + 1
    /\ lastOp' = Op("clearMessages")
    /\ UNCHANGED <<mounted, restored, isLoading, request, streamVars, pendingSummaries,
                   errorCount>>
    /\ UNCHANGED <<appVars, notConvVars>>

NextChatPanel ==
    \/ handleSend
    \/ handleSendWhileLoading
    \/ onToken
    \/ onComplete
    \/ onError
    \/ summarizeResolved
    \/ summarizeRejected
    \/ clearMessages

----------------------------------------------------------------------------
(* App.tsx: handleChat, generateConversationSummary, clearChat *)

appGreeting(id) == ChatMessage(id, "assistant", <<"greeting">>)
appCleared(id) == ChatMessage(id, "assistant", <<"cleared">>)
errorText(message) == <<"I apologize, but I encountered an error: ">> \o message
                        \o <<". Please try again.">>

(* allMessages.slice(-MEMORY_CONFIG.MAX_STORED_MESSAGES) *)
trimStored(all) == sliceFrom(all, -MAX_STORED_MESSAGES)

(* the transcript generateConversationSummary sends *)
messagesToSummarize(all) == slice(all, 0, -BUFFER_WINDOW_SIZE)

(* generateConversationSummary issues a request unless it returns early *)
summaryNeedsRequest(all) ==
    /\ Len(all) > SUMMARIZE_THRESHOLD
    /\ ~(Len(all) < MIN_SUMMARY_MESSAGES)
    /\ ~(Len(messagesToSummarize(all)) < MIN_TO_SUMMARIZE)

(* newSummary when no request is issued: the summary handleChat captured, or what
   generateConversationSummary returns early *)
summaryWithoutRequest(all, captured) ==
    IF Len(all) > SUMMARIZE_THRESHOLD /\ Len(all) < MIN_SUMMARY_MESSAGES
    THEN <<>>
    ELSE captured

(* the state update that ends a successful turn *)
commitTurn(prev, all, newSummary) ==
    [prev EXCEPT !.recentMessages = trimStored(all), !.summary = newSummary]

handleChat ==
    /\ mounted = "App"
    /\ UNCHANGED summaryVars
    /\ ~appIsLoading
    /\ appApiKey # <<>>
    /\ nextId + 1 <= restored + MaxNew
    /\ LET userMessage == ChatMessage(nextId, "user", userText(nextId))
           updatedMessages == Append(conversationMemory.recentMessages, userMessage)
       IN  /\ conversationMemory' = [conversationMemory EXCEPT !.recentMessages = updatedMessages]
           /\ closure' = [updatedMessages |-> updatedMessages,
                          summary |-> conversationMemory.summary,
                          allMessages |-> <<>>]
           /\ request' = mapEntries(sliceFrom(updatedMessages, -BUFFER_WINDOW_SIZE))
    /\ appIsLoading' = TRUE
    /\ appPc' = "streaming"
    /\ streamingContent' = <<>>
    /\ fullContent' = <<>>
    /\ requestsInFlight' = requestsInFlight + 1
    /\ nextId' = nextId + 1
    /\ lastOp' = Op("handleChat")
    /\ UNCHANGED <<mounted, restored, errorCount, clearCount>>
    /\ UNCHANGED <<storeVars, notConvVars>>

(* handleChat called while a turn is loading: it returns at once *)
handleChatWhileLoading ==
    /\ mounted = "App"
    /\ UNCHANGED summaryVars
    /\ appIsLoading
    /\ lastOp' = Op("handleChatIgnored")
    /\ UNCHANGED <<mounted, restored, nextId, request, streamVars, errorCount, clearCount>>
    /\ UNCHANGED <<appVars, storeVars, notConvVars>>

(* the stream loop reads a content_block_delta: fullContent += text;
   setStreamingContent(fullContent) *)
streamChunk ==
    /\ mounted = "App"
    /\ UNCHANGED summaryVars
    /\ appPc = "streaming"
    /\ \E text \in nextChunks(request, fullContent) :
        /\ fullContent' = fullContent \o text
        /\ streamingContent' = fullContent \o text
        /\ lastOp' = OpText("streamChunk", text)
    /\ UNCHANGED <<mounted, restored, nextId, request, requestsInFlight, errorCount,
                   clearCount>>
    /\ UNCHANGED <<appVars, storeVars, notConvVars>>

(* the chat request fails: non-OK status, no body, fetch or read rejects *)
chatFailed ==
    /\ mounted = "App"
    /\ UNCHANGED summaryVars
    /\ appPc = "streaming"
    /\ errorCount < MaxErrors
    /\ nextId <= restored + MaxNew
    /\ \E message \in ErrorTexts :
        conversationMemory' =
            [conversationMemory EXCEPT !.recentMessages =
                Append(@, ChatMessage(nextId, "assistant", errorText(message)))]
    /\ appIsLoading' = FALSE
    /\ appPc' = "idle"
    /\ closure' = NoClosure
    /\ request' = <<>>
    /\ streamingContent' = <<>>
    /\ fullContent' = <<>>
    /\ requestsInFlight' = requestsInFlight - 1
    /\ nextId' = nextId + 1
    /\ errorCount' = errorCount + 1
    /\ UNCHANGED clearCount
    /\ lastOp' = Op("chatFailed")
    /\ UNCHANGED <<mounted, restored>>
    /\ UNCHANGED <<storeVars, notConvVars>>

(* the stream ends: below the threshold the turn is committed at once, above it
   handleChat awaits generateConversationSummary(allMessages) *)
streamDone ==
    /\ mounted = "App"
    /\ UNCHANGED renderedMessages
    /\ appPc = "streaming"
    /\ fullContent = responseText(request)
    /\ nextId <= restored + MaxNew
    /\ LET assistantMessage == ChatMessage(nextId, "assistant", fullContent)
           allMessages == Append(closure.updatedMessages, assistantMessage)
       IN  IF summaryNeedsRequest(allMessages)
           THEN /\ closure' = [closure EXCEPT !.allMessages = allMessages]
                /\ appPc' = "summarizing"
                /\ summaryRequest' = SummaryRequest(messagesToSummarize(allMessages),
                                                    allMessages)
                /\ lastOp' = Op("streamDone")
                /\ UNCHANGED <<conversationMemory, appIsLoading, request, fullContent,
                               streamingContent>>
           ELSE /\ conversationMemory' =
                       commitTurn(conversationMemory, allMessages,
                                  summaryWithoutRequest(allMessages, closure.summary))
                /\ closure' = NoClosure
                /\ appPc' = "idle"
                /\ appIsLoading' = FALSE
                /\ request' = <<>>
                /\ streamingContent' = <<>>
                /\ fullContent' = <<>>
                /\ UNCHANGED summaryRequest
                /\ lastOp' = Op("turnCommitted")
    /\ requestsInFlight' = requestsInFlight - 1
    /\ nextId' = nextId + 1
    /\ UNCHANGED <<mounted, restored, errorCount, clearCount>>
    /\ UNCHANGED <<storeVars, notConvVars>>

(* generateConversationSummary returns: the text of the response, or the summary
   its closure captured when the request fails or carries no text *)
summaryReturned ==
    /\ mounted = "App"
    /\ UNCHANGED summaryVars
    /\ appPc = "summarizing"
    /\ \E outcome \in SummaryTexts \cup {<<>>, Null} :
        LET failed == Falsy(outcome)
            newSummary == IF failed THEN closure.summary ELSE outcome
        IN  /\ conversationMemory' = commitTurn(conversationMemory, closure.allMessages, newSummary)
            /\ lastOp' = OpText(outcomeName(outcome), outcome)
    /\ closure' = NoClosure
    /\ appPc' = "idle"
    /\ appIsLoading' = FALSE
    /\ request' = <<>>
    /\ streamingContent' = <<>>
    /\ fullContent' = <<>>
    /\ UNCHANGED <<mounted, restored, nextId, requestsInFlight, errorCount, clearCount>>
    /\ UNCHANGED <<storeVars, notConvVars>>

clearChat ==
    /\ mounted = "App"
    /\ UNCHANGED summaryVars
    /\ Len(conversationMemory.recentMessages) > 1
    /\ nextId + requestsInFlight <= restored + MaxNew
    /\ clearCount < MaxClears
    /\ clearCount' = clearCount + 1
    /\ conversationMemory' = [DEFAULT_MEMORY EXCEPT !.recentMessages = <<appCleared(nextId)>>]
    /\ nextId' = nextId + 1
    /\ lastOp' = Op("clearChat")
    /\ UNCHANGED <<mounted, restored, appIsLoading, appPc, closure, request, streamVars,
                   errorCount>>
    /\ UNCHANGED <<storeVars, notConvVars>>

NextApp ==
    \/ handleChat
    \/ handleChatWhileLoading
    \/ streamChunk
    \/ chatFailed
    \/ streamDone
    \/ summaryReturned
    \/ clearChat

Next == NextChatPanel \/ NextApp

Spec == Init /\ [][Next]_vars

----------------------------------------------------------------------------
(* API-key validation: useApiKeyStore (ApiKeyModal) and App.tsx handleSaveApiKey *)

KeyInputs ==
    {<<>>, <<" ">>, <<"bad">>, <<"sk-ant-", "1">>, <<"sk-ant-", "2">>,
     <<" ", "sk-ant-", "1", " ">>}

(* what the validation request can answer: an HTTP response (its body parses as
   JSON or not, and carries an error message or not) or a rejected fetch (a
   TypeError naming fetch, or another error) *)
Statuses == {200, 401, 429, 500}
Responses ==
    [kind : {"response"}, status : Statuses, json : BOOLEAN,
     message : {<<>>, <<"Overloaded">>}]
    \cup [kind : {"reject"}, status : {0}, json : {FALSE},
          message : {<<"Failed to fetch">>, <<"Load failed">>}]

RECURSIVE trimStart(_)
trimStart(key) == IF key # <<>> /\ Head(key) = " " THEN trimStart(Tail(key)) ELSE key
RECURSIVE trimEnd(_)
trimEnd(key) ==
    IF key # <<>> /\ key[Len(key)] = " " THEN trimEnd(SubSeq(key, 1, Len(key) - 1)) ELSE key
trim(key) == trimEnd(trimStart(key))
startsWith(key, prefix) == key # <<>> /\ Head(key) = prefix

isOk(response) == response.status >= 200 /\ response.status <= 299
statusText(status) == <<"API error: ", ToString(status)>>
Returned(value) == [thrown |-> FALSE, value |-> value, message |-> <<>>]
Thrown(message) == [thrown |-> TRUE, value |-> FALSE, message |-> message]

(* useApiKeyStore.validateApiKey: what it returns or throws for a response *)
validateApiKey(response) ==
    IF response.kind = "reject"
    THEN IF response.message = <<"Failed to fetch">>
         THEN Thrown(<<"Network error. Please check your internet connection.">>)
         ELSE Thrown(response.message)
    ELSE IF isOk(response) THEN Returned(TRUE)
    ELSE IF ~response.json THEN Thrown(<<"Unexpected token">>)
    ELSE IF response.status = 401
         THEN Thrown(<<"Invalid API key. Please check and try again.">>)
    ELSE IF response.status = 429 THEN Returned(TRUE)
    ELSE Thrown(IF response.message # <<>> THEN response.message
                ELSE statusText(response.status))

(* App.tsx validateApiKey: response.ok || response.status === 429, false on a throw *)
appValidateApiKey(response) ==
    response.kind = "response" /\ (isOk(response) \/ response.status = 429)

KeyOp(name, response, key, before) ==
    [op |-> name, response |-> response, key |-> key, before |-> before,
     returned |-> "none"]

(* a step at which setApiKey returns: the value its promise resolves to *)
KeyReturn(name, response, key, before, value) ==
    [KeyOp(name, response, key, before) EXCEPT !.returned = IF value THEN "true" ELSE "false"]

(* useApiKeyStore.setApiKey up to its await *)
setApiKey ==
    /\ mounted = "ChatPanel"
    /\ ~isValidating
    /\ keyAttempts < MaxKeyAttempts
    /\ keyAttempts' = keyAttempts + 1
    /\ \E key \in KeyInputs :
        LET trimmedKey == trim(key)
        IN  IF trimmedKey = <<>>
            THEN /\ validationError' = <<"API key cannot be empty">>
                 /\ lastKeyOp' = KeyReturn("rejectedEmpty", <<>>, trimmedKey, apiKey, FALSE)
                 /\ UNCHANGED <<isValidating, keyCandidate>>
            ELSE IF ~startsWith(trimmedKey, "sk-ant-")
            THEN /\ validationError' =
                     <<"Invalid API key format. Claude API keys start with \"sk-ant-\"">>
                 /\ lastKeyOp' = KeyReturn("rejectedFormat", <<>>, trimmedKey, apiKey,
                                           FALSE)
                 /\ UNCHANGED <<isValidating, keyCandidate>>
            ELSE /\ isValidating' = TRUE
                 /\ validationError' = Null
                 /\ keyCandidate' = trimmedKey
                 /\ lastKeyOp' = KeyOp("requested", <<>>, trimmedKey, apiKey)
    /\ UNCHANGED <<apiKey, isValidated, lastValidated>>
    /\ UNCHANGED <<notKeyVars, keyAppVars>>

(* setApiKey after validateApiKey settles, were a failed validation to drop the
   stored key *)
setApiKeySettledForgetsKey ==
    /\ mounted = "ChatPanel"
    /\ isValidating
    /\ \E response \in Responses :
        LET result == validateApiKey(response)
        IN  /\ lastKeyOp' = KeyReturn("settled", response, keyCandidate, apiKey,
                                      ~result.thrown /\ result.value)
            /\ IF result.thrown
               THEN /\ validationError' = result.message
                    /\ apiKey' = Null
                    /\ isValidated' = FALSE
                    /\ UNCHANGED lastValidated
               ELSE IF result.value
               THEN /\ apiKey' = keyCandidate
                    /\ isValidated' = TRUE
                    /\ validationError' = Null
                    /\ lastValidated' = keyAttempts
               ELSE /\ validationError' = <<"API key validation failed. Please check your key.">>
                    /\ UNCHANGED <<apiKey, isValidated, lastValidated>>
    /\ isValidating' = FALSE
    /\ keyCandidate' = <<>>
    /\ UNCHANGED keyAttempts
    /\ UNCHANGED <<notKeyVars, keyAppVars>>

(* setApiKey after validateApiKey settles *)
setApiKeySettled ==
    /\ mounted = "ChatPanel"
    /\ isValidating
    /\ \E response \in Responses :
        LET result == validateApiKey(response)
        IN  /\ lastKeyOp' = KeyReturn("settled", response, keyCandidate, apiKey,
                                      ~result.thrown /\ result.value)
            /\ IF result.thrown
               THEN /\ validationError' = result.message
                    /\ UNCHANGED <<apiKey, isValidated, lastValidated>>
               ELSE IF result.value
               THEN /\ apiKey' = keyCandidate
                    /\ isValidated' = TRUE
                    /\ validationError' = Null
                    /\ lastValidated' = keyAttempts
               ELSE /\ validationError' = <<"API key validation failed. Please check your key.">>
                    /\ UNCHANGED <<apiKey, isValidated, lastValidated>>
    /\ isValidating' = FALSE
    /\ keyCandidate' = <<>>
    /\ UNCHANGED keyAttempts
    /\ UNCHANGED <<notKeyVars, keyAppVars>>

clearApiKey ==
    /\ mounted = "ChatPanel"
    /\ apiKey # Null
    /\ apiKey' = Null
    /\ isValidated' = FALSE
    /\ validationError' = Null
    /\ lastValidated' = 0
    /\ lastKeyOp' = KeyOp("clearApiKey", <<>>, <<>>, apiKey)
    /\ UNCHANGED <<isValidating, keyCandidate, keyAttempts>>
    /\ UNCHANGED <<notKeyVars, keyAppVars>>

(* App.tsx: a chat submission without a key, or the key button, opens the modal *)
openApiKeyModal ==
    /\ mounted = "App"
    /\ ~showApiKeyModal
    /\ showApiKeyModal' = TRUE
    /\ lastKeyOp' = KeyOp("openApiKeyModal", <<>>, <<>>, appApiKey)
    /\ UNCHANGED <<appApiKey, isValidatingKey, keyError, keyCandidate, keyAttempts>>
    /\ UNCHANGED <<notKeyVars, keyStoreVars>>

(* App.tsx handleSaveApiKey up to its await *)
handleSaveApiKey ==
    /\ mounted = "App"
    /\ showApiKeyModal
    /\ ~isValidatingKey
    /\ keyAttempts < MaxKeyAttempts
    /\ keyAttempts' = keyAttempts + 1
    /\ \E apiKeyInput \in KeyInputs :
        IF trim(apiKeyInput) = <<>>
        THEN /\ lastKeyOp' = KeyOp("ignoredEmpty", <<>>, apiKeyInput, appApiKey)
             /\ UNCHANGED <<isValidatingKey, keyError, keyCandidate>>
        ELSE IF ~startsWith(apiKeyInput, "sk-ant-")
        THEN /\ keyError' = <<"Invalid API key format. Keys start with \"sk-ant-\"">>
             /\ lastKeyOp' = KeyOp("rejectedFormat", <<>>, apiKeyInput, appApiKey)
             /\ UNCHANGED <<isValidatingKey, keyCandidate>>
        ELSE /\ isValidatingKey' = TRUE
             /\ keyError' = Null
             /\ keyCandidate' = apiKeyInput
             /\ lastKeyOp' = KeyOp("requested", <<>>, apiKeyInput, appApiKey)
    /\ UNCHANGED <<appApiKey, showApiKeyModal>>
    /\ UNCHANGED <<notKeyVars, keyStoreVars>>

(* handleSaveApiKey after validateApiKey settles *)
handleSaveApiKeySettled ==
    /\ mounted = "App"
    /\ isValidatingKey
    /\ \E response \in Responses :
        /\ lastKeyOp' = KeyOp("settled", response, keyCandidate, appApiKey)
        /\ IF appValidateApiKey(response)
           THEN /\ appApiKey' = keyCandidate
                /\ showApiKeyModal' = FALSE
                /\ UNCHANGED keyError
           ELSE /\ keyError' = <<"Invalid API key. Please check and try again.">>
                /\ UNCHANGED <<appApiKey, showApiKeyModal>>
    /\ isValidatingKey' = FALSE
    /\ keyCandidate' = <<>>
    /\ UNCHANGED keyAttempts
    /\ UNCHANGED <<notKeyVars, keyStoreVars>>

handleClearApiKey ==
    /\ mounted = "App"
    /\ appApiKey # <<>>
    /\ appApiKey' = <<>>
    /\ lastKeyOp' = KeyOp("handleClearApiKey", <<>>, <<>>, appApiKey)
    /\ UNCHANGED <<isValidatingKey, keyError, showApiKeyModal, keyCandidate, keyAttempts>>
    /\ UNCHANGED <<notKeyVars, keyStoreVars>>

InitKey ==
    /\ mounted \in {"ChatPanel", "App"}
    /\ InitConversation({1})
    /\ InitKeys(FALSE)
    /\ dbTable = {}
    /\ InitDbIdle
    /\ InitEngineIdle
    /\ InitWireIdle
    /\ InitLoadIdle
    /\ InitPageIdle

NextKey ==
    \/ setApiKey
    \/ setApiKeySettled
    \/ clearApiKey
    \/ openApiKeyModal
    \/ handleSaveApiKey
    \/ handleSaveApiKeySettled
    \/ handleClearApiKey

SpecKey == InitKey /\ [][NextKey]_vars

----------------------------------------------------------------------------
(* DuckDBService (App.tsx): searchContracts and getContractCount.
   A text is a sequence of characters; a table is a set of rows. *)

lowerChar(c) ==
    IF c = "A" THEN "a" ELSE IF c = "N" THEN "n" ELSE IF c = "X" THEN "x" ELSE c
LOWER(text) == [i \in 1..Len(text) |-> lowerChar(text[i])]
COALESCE(value, default) == IF value = Null THEN default ELSE value

(* SQL LIKE: % matches any run of characters, _ any one character *)
RECURSIVE LIKE(_, _)
LIKE(text, pattern) ==
    IF pattern = <<>> THEN text = <<>>
    ELSE IF Head(pattern) = "%"
         THEN LIKE(text, Tail(pattern)) \/ (text # <<>> /\ LIKE(Tail(text), pattern))
    ELSE /\ text # <<>>
         /\ (Head(pattern) = "_" \/ Head(pattern) = Head(text))
         /\ LIKE(Tail(text), Tail(pattern))

(* LOWER(COALESCE(column, '')) LIKE '%<escaped query, lower-cased>%': the doubled
   quotes of the escaping are read back by the engine as the quote itself *)
likeQuery(value, query) == LIKE(LOWER(COALESCE(value, <<>>)), <<"%">> \o LOWER(query) \o <<"%">>)

(* column = 'value': never true of a NULL column *)
sqlEquals(value, literal) == value # Null /\ value = literal

searchConditions(row, options) ==
    /\ options.query # <<>> =>
          \/ likeQuery(row.award_title, options.query)
          \/ likeQuery(row.awardee_name, options.query)
          \/ likeQuery(row.organization_name, options.query)
          \/ likeQuery(row.notice_title, options.query)
    /\ options.area # <<>> => sqlEquals(row.area_of_delivery, options.area)
    /\ options.category # <<>> => sqlEquals(row.business_category, options.category)

countConditions(row, options) ==
    /\ options.query # <<>> =>
          \/ likeQuery(row.award_title, options.query)
          \/ likeQuery(row.awardee_name, options.query)
          \/ likeQuery(row.organization_name, options.query)
    /\ options.area # <<>> => sqlEquals(row.area_of_delivery, options.area)
    /\ options.category # <<>> => sqlEquals(row.business_category, options.category)

(* the orders ORDER BY contract_amount DESC allows: rows of equal amount come in
   an order the engine chooses *)
Orderings(rows) ==
    {s \in [1..Cardinality(rows) -> rows] :
        /\ \A i, j \in 1..Cardinality(rows) : i # j => s[i] # s[j]
        /\ \A i, j \in 1..Cardinality(rows) :
              i < j => s[i].contract_amount >= s[j].contract_amount}

searchContractsNoOffset(table, options, limit, offset) ==
    {slice(s, 0, limit) :
        s \in Orderings({row \in table : searchConditions(row, options)})}

(* the pages searchContracts can return: LIMIT limit OFFSET offset of an ordering *)
searchContracts(table, options, limit, offset) ==
    {slice(s, offset, offset + limit) :
        s \in Orderings({row \in table : searchConditions(row, options)})}

(* SELECT COUNT( * ) FROM contracts WHERE ... *)
getContractCount(table, options) ==
    Cardinality({row \in table : countConditions(row, options)})

(* duckdbService.queryContracts: LOWER(column) LIKE '%...%' is NULL, so not true,
   of a NULL column *)
likeColumn(value, query) ==
    value # Null /\ LIKE(LOWER(value), <<"%">> \o LOWER(query) \o <<"%">>)

queryConditions(row, options) ==
    /\ options.query # <<>> =>
          \/ likeColumn(row.award_title, options.query)
          \/ likeColumn(row.awardee_name, options.query)
          \/ likeColumn(row.organization_name, options.query)
    /\ options.area # <<>> => sqlEquals(row.area_of_delivery, options.area)
    /\ options.category # <<>> => sqlEquals(row.business_category, options.category)

(* ORDER BY contract_amount DESC LIMIT limit OFFSET offset, the defaults of orderBy
   and orderDir *)
queryContracts(table, options, limit, offset) ==
    {slice(s, offset, offset + limit) :
        s \in Orderings({row \in table : queryConditions(row, options)})}

Row(title, notice, area, category, amount) ==
    [award_title |-> title, awardee_name |-> <<"c">>, organization_name |-> <<"d">>,
     notice_title |-> notice, area_of_delivery |-> area, business_category |-> category,
     contract_amount |-> amount]
(* the rows a dataset is made of: the notice title matches a keyword the other
   columns do not, and titles, areas, categories and amounts vary against each other *)
Rows ==
    {Row(title, IF title = <<"a">> THEN <<"n">> ELSE <<"A">>, area,
         IF (title = <<"a">>) = (area = <<"x">>) THEN <<"g">> ELSE <<"h">>, amount) :
        title \in {<<"a">>, <<"b">>}, area \in {<<"x">>, <<"y">>}, amount \in {1, 2}}
RECURSIVE TablesUpTo(_)
TablesUpTo(n) ==
    IF n = 0 THEN {{}}
    ELSE LET smaller == TablesUpTo(n - 1)
         IN  smaller \cup {table \cup {row} : table \in smaller, row \in Rows}
Tables == TablesUpTo(MaxRows) \ {{}}
Queries == {<<>>, <<"a">>, <<"N">>, <<"c">>, <<"_">>}
OptionSets == [query : Queries, area : {<<>>, <<"x">>, <<"X">>}, category : {<<>>, <<"g">>}]
Limits == {1, 2}
Offsets == {0, 1, 2}

(* a caller asks for the count and starts reading the result page by page; a run
   follows one such reading from its first page to its last *)
startQuery ==
    /\ dbPc = "idle"
    /\ \E options \in OptionSets, limit \in Limits :
        /\ dbOptions' = options
        /\ dbLimit' = limit
        /\ dbCount' = getContractCount(dbTable, options)
    /\ dbOffset' = 0
    /\ dbRows' = <<>>
    /\ dbPage' = NoPage
    /\ dbPc' = "paging"
    /\ UNCHANGED dbTable
    /\ UNCHANGED notDbVars

(* the next page; a page shorter than the limit is the last one *)
readPage ==
    /\ dbPc = "paging"
    /\ \E page \in searchContracts(dbTable, dbOptions, dbLimit, dbOffset) :
        /\ dbRows' = dbRows \o page
        /\ dbPage' = [service |-> "App", options |-> dbOptions, limit |-> dbLimit,
                      offset |-> dbOffset, rows |-> page]
        /\ IF Len(page) < dbLimit
           THEN dbPc' = "done" /\ UNCHANGED dbOffset
           ELSE dbOffset' = dbOffset + dbLimit /\ UNCHANGED dbPc
    /\ UNCHANGED <<dbTable, dbOptions, dbLimit, dbCount>>
    /\ UNCHANGED notDbVars

(* a caller of duckdbService asks for one page *)
queryContractsCall ==
    /\ dbPc = "idle"
    /\ dbPage = NoPage
    /\ \E options \in OptionSets, limit \in Limits, offset \in Offsets :
        \E page \in queryContracts(dbTable, options, limit, offset) :
            dbPage' = [service |-> "duckdbService", options |-> options, limit |-> limit,
                       offset |-> offset, rows |-> page]
    /\ UNCHANGED <<dbTable, dbOptions, dbLimit, dbOffset, dbRows, dbCount, dbPc>>
    /\ UNCHANGED notDbVars

InitDb ==
    /\ mounted = "App"
    /\ InitConversation({1})
    /\ InitKeys(FALSE)
    /\ dbTable \in Tables
    /\ InitDbIdle
    /\ InitEngineIdle
    /\ InitWireIdle
    /\ InitLoadIdle
    /\ InitPageIdle

NextDb ==
    \/ startQuery
    \/ readPage
    \/ queryContractsCall

SpecDb == InitDb /\ [][NextDb]_vars

----------------------------------------------------------------------------
(* Loading a dataset: DuckDBService.loadParquetFromFile / FromUrl / FromBuffer
   (App.tsx), loadParquetFile (duckdbService.ts) and App.tsx loadData.
   A message is a sequence of words. *)

lowerWord(word) ==
    IF word \in {"Snappy", "SNAPPY"} THEN "snappy"
    ELSE IF word \in {"GZIP", "Gzip"} THEN "gzip"
    ELSE word

(* message.toLowerCase().includes(name) *)
includes(message, name) == \E i \in 1..Len(message) : lowerWord(message[i]) = name

(* what reading the registered file can end with: the table is created and counted,
   or the engine rejects with a message; when a compression scheme is the cause
   the message names it, alone or in a list of codecs *)
RowCounts == {0, 5000}
EngineErrors ==
    {[cause |-> "snappy", message |-> <<"Snappy", "decompression failure">>],
     [cause |-> "gzip", message |-> <<"GZIP", "decompression failure">>],
     [cause |-> "snappy",
      message |-> <<"Unsupported compression codec", "SNAPPY",
                    "Supported options are uncompressed,", "gzip", "or", "snappy">>],
     [cause |-> "gzip",
      message |-> <<"Unsupported compression codec", "GZIP",
                    "Supported options are uncompressed,", "gzip", "or", "snappy">>],
     [cause |-> "none", message |-> <<"No magic bytes found">>]}
EngineOutcomes ==
    [ok : {TRUE}, cause : {"none"}, message : {<<>>}, count : RowCounts]
    \cup {[ok |-> FALSE, cause |-> e.cause, message |-> e.message, count |-> 0] :
              e \in EngineErrors}

(* DuckDBService.loadParquetFromBuffer *)
loadParquetFromBuffer(outcome) ==
    IF outcome.ok THEN Returned(outcome.count)
    ELSE IF includes(outcome.message, "snappy")
         THEN Thrown(<<"This parquet file uses", "Snappy",
                       "compression, which is not supported in browsers.">>)
    ELSE IF includes(outcome.message, "gzip")
         THEN Thrown(<<"This parquet file uses", "GZIP",
                       "compression, which is not supported by DuckDB-WASM.">>)
    ELSE Thrown(outcome.message)

(* DuckDBService.loadParquetFromUrl: fetches the bytes and loads the buffer *)
loadParquetFromUrl(outcome) == loadParquetFromBuffer(outcome)

(* DuckDBService.loadParquetFromFile: no catch *)
loadParquetFromFile(outcome) ==
    IF outcome.ok THEN Returned(outcome.count) ELSE Thrown(outcome.message)

(* duckdbService.loadParquetFile, from a File or a URL: logs and rethrows *)
loadParquetFile(outcome) ==
    IF outcome.ok THEN Returned(outcome.count) ELSE Thrown(outcome.message)

Loaded(entry, outcome, result) ==
    [entry |-> entry, outcome |-> outcome, thrown |-> result.thrown,
     value |-> result.value, message |-> result.message]

(* App.tsx loadData up to its first await *)
loadData ==
    /\ mounted = "App"
    /\ ~isDataLoading
    /\ loadAttempts < MaxLoads
    /\ loadAttempts' = loadAttempts + 1
    /\ dataLoaded' = FALSE
    /\ isDataLoading' = TRUE
    /\ dataError' = Null
    /\ \E entry \in {"file", "demo"} : loadEntry' = entry
    /\ UNCHANGED lastLoad
    /\ UNCHANGED notLoadVars

(* loadData after the load call settles: the queries that follow a successful load
   succeed or reject; the finally block clears the busy flag *)
loadDataSettled ==
    /\ mounted = "App"
    /\ loadEntry # "none"
    /\ \E outcome \in EngineOutcomes, queriesOk \in BOOLEAN :
        LET result == IF loadEntry = "file" THEN loadParquetFromBuffer(outcome)
                      ELSE loadParquetFromUrl(outcome)
        IN  /\ lastLoad' = Loaded(IF loadEntry = "file" THEN "buffer" ELSE "url",
                                   outcome, result)
            /\ IF result.thrown
               THEN dataError' = result.message /\ UNCHANGED dataLoaded
               ELSE IF queriesOk
               THEN dataLoaded' = TRUE /\ UNCHANGED dataError
               ELSE dataError' = <<"Not connected">> /\ UNCHANGED dataLoaded
    /\ isDataLoading' = FALSE
    /\ loadEntry' = "none"
    /\ UNCHANGED loadAttempts
    /\ UNCHANGED notLoadVars

(* the files a user can hand to the upload input: name extension and size in bytes *)
UploadFiles ==
    [extension : {".parquet", ".csv", ".txt"},
     size : {1024, 500 * 1024 * 1024, 500 * 1024 * 1024 + 1}]

(* handleFileUpload's validation: the message it rejects the file with, Null when
   the file passes *)
uploadRejection(file) ==
    IF file.extension \notin {".parquet", ".csv"}
    THEN <<"Invalid file type. Please upload a .parquet or .csv file.">>
    ELSE IF file.size > 500 * 1024 * 1024
    THEN <<"File too large. Maximum size is 500MB.">>
    ELSE IF file.extension = ".csv"
    THEN <<"CSV upload coming soon. Please use .parquet format for now.">>
    ELSE Null

(* a rejected upload never reaches the engine *)
UploadRejected(message) ==
    [NoLoad EXCEPT !.entry = "uploadRejected", !.message = message,
                   !.outcome = [ok |-> TRUE, cause |-> "none", message |-> <<>>,
                                count |-> 0]]

(* App.tsx handleFileUpload: a rejected file sets dataError and returns; an
   accepted one clears dataError and runs loadData(file) up to its first await.
   The upload button is disabled while a load is running. *)
handleFileUpload ==
    /\ mounted = "App"
    /\ ~isDataLoading
    /\ loadAttempts < MaxLoads
    /\ loadAttempts' = loadAttempts + 1
    /\ \E file \in UploadFiles :
        IF uploadRejection(file) # Null
        THEN /\ dataError' = uploadRejection(file)
             /\ lastLoad' = UploadRejected(uploadRejection(file))
             /\ UNCHANGED <<isDataLoading, dataLoaded, loadEntry>>
        ELSE /\ dataLoaded' = FALSE
             /\ isDataLoading' = TRUE
             /\ dataError' = Null
             /\ loadEntry' = "file"
             /\ UNCHANGED lastLoad
    /\ UNCHANGED notLoadVars

(* the data loading / error view: rendered when no dataset is loaded, it shows the
   error message when no load is running and dataError is set *)
errorViewShown == ~dataLoaded /\ ~isDataLoading /\ dataError # Null

(* a caller loads through one of the other entry points *)
loadServiceCall ==
    /\ loadEntry = "none"
    /\ loadAttempts < MaxLoads
    /\ loadAttempts' = loadAttempts + 1
    /\ \E entry \in {"fileHandle", "loadParquetFile"}, outcome \in EngineOutcomes :
        lastLoad' = Loaded(entry, outcome,
                           IF entry = "fileHandle" THEN loadParquetFromFile(outcome)
                           ELSE loadParquetFile(outcome))
    /\ UNCHANGED <<isDataLoading, dataLoaded, dataError, loadEntry>>
    /\ UNCHANGED notLoadVars

InitLoad ==
    /\ mounted = "App"
    /\ InitConversation({1})
    /\ InitKeys(FALSE)
    /\ dbTable = {}
    /\ InitDbIdle
    /\ InitEngineIdle
    /\ InitWireIdle
    /\ InitLoadIdle
    /\ InitPageIdle

NextLoad ==
    \/ loadData
    \/ handleFileUpload
    \/ loadDataSettled
    \/ loadServiceCall

SpecLoad == InitLoad /\ [][NextLoad]_vars

----------------------------------------------------------------------------
(* Paging through the contracts: App.tsx searchContractsHandler and its effects,
   and the data store (setFilters, resetFilters, setPage, applyFilters) *)

UiQueries == {<<>>, <<"a">>, <<"c">>}
UiProvinces == {Null, <<"x">>}
StorePageSizes == {1, 2}

(* the keyword or the province changes: the first effect resets the page index and
   calls the handler of the current render *)
filterChanged ==
    /\ mounted = "App"
    /\ dataLoaded
    /\ Len(inFlight) < MaxInFlight
    /\ \E query \in UiQueries, province \in UiProvinces :
        /\ <<query, province>> # <<searchQuery, selectedProvince>>
        /\ query = searchQuery \/ province = selectedProvince
        /\ searchQuery' = query
        /\ selectedProvince' = province
        /\ inFlight' = Append(inFlight, HandlerCall("filter", query, province, currentPage))
        /\ lastIssued' = HandlerCall("filter", query, province, currentPage)
        /\ pageOp' = [op |-> "filterChanged", options |-> handlerOptions(query, province),
                      fromPage |-> currentPage]
    /\ currentPage' = 0
    /\ UNCHANGED <<contracts, totalFilteredCount>>
    /\ UNCHANGED <<pageStoreVars, notPageVars>>

(* the next-page button: the second effect calls the handler of the new render *)
nextPage ==
    /\ mounted = "App"
    /\ dataLoaded
    /\ Len(inFlight) < MaxInFlight
    /\ totalFilteredCount > PAGE_SIZE
    /\ (currentPage + 1) * PAGE_SIZE < totalFilteredCount
    /\ currentPage' = currentPage + 1
    /\ inFlight' = Append(inFlight,
                          HandlerCall("page", searchQuery, selectedProvince, currentPage + 1))
    /\ lastIssued' = HandlerCall("page", searchQuery, selectedProvince, currentPage + 1)
    /\ pageOp' = [op |-> "nextPage", options |-> handlerOptions(searchQuery, selectedProvince),
                  fromPage |-> currentPage]
    /\ UNCHANGED <<searchQuery, selectedProvince, contracts, totalFilteredCount>>
    /\ UNCHANGED <<pageStoreVars, notPageVars>>

(* the previous-page button: the second effect queries only when the new index is
   above zero *)
previousPage ==
    /\ mounted = "App"
    /\ dataLoaded
    /\ Len(inFlight) < MaxInFlight
    /\ totalFilteredCount > PAGE_SIZE
    /\ currentPage > 0
    /\ currentPage' = Max(0, currentPage - 1)
    /\ inFlight' = IF currentPage - 1 > 0
                   THEN Append(inFlight, HandlerCall("page", searchQuery, selectedProvince,
                                                     currentPage - 1))
                   ELSE inFlight
    /\ lastIssued' = IF currentPage - 1 > 0
                     THEN HandlerCall("page", searchQuery, selectedProvince, currentPage - 1)
                     ELSE lastIssued
    /\ pageOp' = [op |-> "previousPage",
                  options |-> handlerOptions(searchQuery, selectedProvince),
                  fromPage |-> currentPage]
    /\ UNCHANGED <<searchQuery, selectedProvince, contracts, totalFilteredCount>>
    /\ UNCHANGED <<pageStoreVars, notPageVars>>

(* the queries of the oldest call resolve: setContracts(results),
   setTotalFilteredCount(count) *)
handlerSettled ==
    /\ mounted = "App"
    /\ inFlight # <<>>
    /\ LET call == Head(inFlight)
       IN  /\ \E results \in searchContracts(dbTable, call.options, PAGE_SIZE, call.offset) :
                 contracts' = results
           /\ totalFilteredCount' = getContractCount(dbTable, call.options)
           /\ pageOp' = [op |-> IF call.trigger = "filter" THEN "filterSettled"
                                 ELSE "pageSettled",
                         options |-> call.options, fromPage |-> call.fromPage]
    /\ inFlight' = Tail(inFlight)
    /\ UNCHANGED <<searchQuery, selectedProvince, currentPage, lastIssued>>
    /\ UNCHANGED <<pageStoreVars, notPageVars>>

(* the queries of a later call resolve before those of an older one: nothing in
   the handler orders the responses *)
handlerSettledEarly ==
    /\ mounted = "App"
    /\ \E i \in 2..Len(inFlight) :
        LET call == inFlight[i]
        IN  /\ \E results \in searchContracts(dbTable, call.options, PAGE_SIZE, call.offset) :
                  contracts' = results
            /\ totalFilteredCount' = getContractCount(dbTable, call.options)
            /\ pageOp' = [op |-> IF call.trigger = "filter" THEN "filterSettled"
                                  ELSE "pageSettled",
                          options |-> call.options, fromPage |-> call.fromPage]
            /\ inFlight' = SubSeq(inFlight, 1, i - 1) \o SubSeq(inFlight, i + 1, Len(inFlight))
    /\ UNCHANGED <<searchQuery, selectedProvince, currentPage, lastIssued>>
    /\ UNCHANGED <<pageStoreVars, notPageVars>>

(* helpers.searchContracts with a one-term query: the term is looked up in the
   searchable fields joined with spaces, lower-cased *)
searchableText(row) ==
    row.award_title \o <<" ">> \o row.notice_title \o <<" ">> \o row.awardee_name
    \o <<" ">> \o row.organization_name \o <<" ">> \o row.area_of_delivery
    \o <<" ">> \o row.business_category

termIncluded(row, term) ==
    \E i \in 0..(Len(searchableText(row)) - Len(term)) :
        SubSeq(LOWER(searchableText(row)), i + 1, i + Len(term)) = LOWER(term)

helpersSearchContracts(rows, query) ==
    IF trim(query) = <<>> THEN rows
    ELSE SelectSeq(rows, LAMBDA row : termIncluded(row, trim(query)))

(* helpers.sortBy on contractAmount: the comparator puts the larger amount first for
   desc, the smaller first for asc; Array.prototype.sort is stable *)
comesBefore(a, b, direction) ==
    IF direction = "asc" THEN a.contract_amount <= b.contract_amount
    ELSE a.contract_amount >= b.contract_amount

RECURSIVE insertSorted(_, _, _)
insertSorted(sorted, row, direction) ==
    IF sorted = <<>> THEN <<row>>
    ELSE IF comesBefore(sorted[Len(sorted)], row, direction)
         THEN Append(sorted, row)
    ELSE Append(insertSorted(SubSeq(sorted, 1, Len(sorted) - 1), row, direction),
                sorted[Len(sorted)])
RECURSIVE sortBy(_, _)
sortBy(rows, direction) ==
    IF rows = <<>> THEN <<>>
    ELSE insertSorted(sortBy(SubSeq(rows, 1, Len(rows) - 1), direction), rows[Len(rows)],
                      direction)

(* useDataStore.applyFilters with the keyword filter: the new filteredContracts *)
applyFilters(rows, filters) ==
    sortBy(IF filters.searchQuery # <<>>
           THEN helpersSearchContracts(rows, filters.searchQuery) ELSE rows,
           filters.sortDirection)

(* helpers.calculateCategoryStats / calculateAreaStats: per group totalValue and
   contractCount (the groups are kept as a function of the group's name) *)
RECURSIVE totalValue(_)
totalValue(rows) ==
    IF rows = <<>> THEN 0 ELSE rows[1].contract_amount + totalValue(Tail(rows))

calculateCategoryStats(rows) ==
    [category \in {rows[i].business_category : i \in 1..Len(rows)} |->
        LET categoryContracts == SelectSeq(rows, LAMBDA c : c.business_category = category)
        IN  [totalValue |-> totalValue(categoryContracts),
             contractCount |-> Len(categoryContracts)]]

calculateAreaStats(rows) ==
    [area \in {rows[i].area_of_delivery : i \in 1..Len(rows)} |->
        LET areaContracts == SelectSeq(rows, LAMBDA c : c.area_of_delivery = area)
        IN  [totalValue |-> totalValue(areaContracts),
             contractCount |-> Len(areaContracts)]]

(* helpers.paginate(...).items *)
paginate(rows, page, pageSize) ==
    slice(rows, (page - 1) * pageSize, (page - 1) * pageSize + pageSize)

(* usePaginatedContracts: the rows the data store's page shows *)
usePaginatedContracts == paginate(filteredContracts, storeCurrentPage, storePageSize)

(* the datasets handed to setContracts, the keywords and the partial filters handed
   to setFilters *)
StoreRows == {r \in Rows : (r.business_category = <<"g">>) = (r.contract_amount = 2)}
StoreDatasets ==
    UNION {Orderings(t) : t \in {u \in SUBSET StoreRows : Cardinality(u) <= MaxRows}}
StoreQueries == {<<>>, <<"b">>, <<"N">>}
NewFilters ==
    {[f \in {"searchQuery"} |-> q] : q \in StoreQueries}
    \cup {[f \in {"sortDirection"} |-> d] : d \in {"asc", "desc"}}

(* { ...state.filters, ...newFilters } *)
mergeFilters(filters, newFilters) ==
    [f \in DOMAIN filters |-> IF f \in DOMAIN newFilters THEN newFilters[f] ELSE filters[f]]

StoreOp(name, filters) ==
    [op |-> name, options |-> handlerOptions(filters.searchQuery, Null),
     fromPage |-> storeCurrentPage]

setContracts ==
    /\ mounted = "ChatPanel"
    /\ \E data \in StoreDatasets :
        /\ data # storeContracts
        /\ storeContracts' = data
        /\ filteredContracts' = data
        /\ categoryStats' = calculateCategoryStats(data)
        /\ areaStats' = calculateAreaStats(data)
    /\ pageOp' = StoreOp("setContracts", storeFilters)
    /\ UNCHANGED <<storeFilters, storeCurrentPage, storePageSize>>
    /\ UNCHANGED <<pageAppVars, notPageVars>>

setFilters ==
    /\ mounted = "ChatPanel"
    /\ \E newFilters \in NewFilters :
        LET merged == mergeFilters(storeFilters, newFilters)
            filtered == applyFilters(storeContracts, merged)
        IN  /\ storeFilters' = merged
            /\ filteredContracts' = filtered
            /\ categoryStats' = calculateCategoryStats(filtered)
            /\ areaStats' = calculateAreaStats(filtered)
            /\ pageOp' = StoreOp("setFilters", merged)
    /\ storeCurrentPage' = 1
    /\ UNCHANGED <<storeContracts, storePageSize>>
    /\ UNCHANGED <<pageAppVars, notPageVars>>

resetFilters ==
    /\ mounted = "ChatPanel"
    /\ storeFilters # initialFilters
    /\ storeFilters' = initialFilters
    /\ storeCurrentPage' = 1
    /\ LET filtered == applyFilters(storeContracts, initialFilters)
       IN  /\ filteredContracts' = filtered
           /\ categoryStats' = calculateCategoryStats(filtered)
           /\ areaStats' = calculateAreaStats(filtered)
    /\ pageOp' = StoreOp("resetFilters", initialFilters)
    /\ UNCHANGED <<storeContracts, storePageSize>>
    /\ UNCHANGED <<pageAppVars, notPageVars>>

(* setPage to a page the pagination control offers: one that exists *)
setPage ==
    /\ mounted = "ChatPanel"
    /\ \E page \in 1..MaxRows :
        /\ page # storeCurrentPage
        /\ (page - 1) * storePageSize < Len(filteredContracts)
        /\ storeCurrentPage' = page
    /\ pageOp' = StoreOp("setPage", storeFilters)
    /\ UNCHANGED <<storeContracts, storeFilters, storePageSize, filteredContracts,
                   categoryStats, areaStats>>
    /\ UNCHANGED <<pageAppVars, notPageVars>>

setPageSize ==
    /\ mounted = "ChatPanel"
    /\ \E size \in StorePageSizes :
        /\ size # storePageSize
        /\ storePageSize' = size
    /\ storeCurrentPage' = 1
    /\ pageOp' = StoreOp("setPageSize", storeFilters)
    /\ UNCHANGED <<storeContracts, storeFilters, filteredContracts, categoryStats, areaStats>>
    /\ UNCHANGED <<pageAppVars, notPageVars>>

(* applyFilters called on its own *)
applyFiltersCall ==
    /\ mounted = "ChatPanel"
    /\ LET filtered == applyFilters(storeContracts, storeFilters)
       IN  /\ filteredContracts' = filtered
           /\ categoryStats' = calculateCategoryStats(filtered)
           /\ areaStats' = calculateAreaStats(filtered)
    /\ pageOp' = StoreOp("applyFilters", storeFilters)
    /\ UNCHANGED <<storeContracts, storeFilters, storeCurrentPage, storePageSize>>
    /\ UNCHANGED <<pageAppVars, notPageVars>>

(* App.tsx has loaded the dataset and shows the first page of all rows (loadData);
   the data store is as constructed *)
InitPage ==
    /\ mounted \in {"ChatPanel", "App"}
    /\ InitConversation({1})
    /\ InitKeys(FALSE)
    /\ InitDbIdle
    /\ InitEngineIdle
    /\ InitWireIdle
    /\ isDataLoading = FALSE
    /\ dataLoaded = TRUE
    /\ dataError = Null
    /\ loadEntry = "none"
    /\ loadAttempts = 1
    /\ lastLoad = NoLoad
    /\ searchQuery = <<>>
    /\ selectedProvince = Null
    /\ currentPage = 0
    /\ inFlight = <<>>
    /\ lastIssued = InitialSearch
    /\ pageOp = NoPageOp
    /\ storeContracts = <<>>
    /\ storeFilters = initialFilters
    /\ storeCurrentPage = 1
    /\ storePageSize = 20
    /\ filteredContracts = <<>>
    /\ categoryStats = <<>>
    /\ areaStats = <<>>
    /\ IF mounted = "App"
       THEN /\ dbTable \in Tables
            /\ contracts \in searchContracts(dbTable, NoOptions, PAGE_SIZE, 0)
            /\ totalFilteredCount = getContractCount(dbTable, NoOptions)
       ELSE /\ dbTable = {}
            /\ contracts = <<>>
            /\ totalFilteredCount = 0

NextPage ==
    \/ filterChanged
    \/ nextPage
    \/ previousPage
    \/ handlerSettled
    \/ handlerSettledEarly
    \/ setContracts
    \/ setFilters
    \/ resetFilters
    \/ setPage
    \/ setPageSize
    \/ applyFiltersCall

SpecPage == InitPage /\ [][NextPage]_vars

----------------------------------------------------------------------------
(* The lifecycle of the query engine: initializeDuckDB and loadParquetFile of
   duckdbService.ts (module variables db, connection), DuckDBService.initialize and
   its load methods in App.tsx (this.db, this.conn, this.initialized).  Callers
   overlap: each await is a point where another caller runs. *)

(* the guard at the top of initialize: if (db) return / if (this.initialized) return *)
alreadyInitialized ==
    IF mounted = "App" THEN engineInitialized ELSE engineDb # 0

(* the guard of the load methods: if (!db || !connection) await initialize() *)
loadNeedsInitialize == engineDb = 0 \/ engineConn = 0

(* what a caller gets when its call returns: loadParquetFile throws when the engine
   is still incomplete after initializeDuckDB returned, App.tsx goes on with
   this.db! and this.conn! *)
Returns(caller) ==
    [caller EXCEPT !.pc = "returned",
                   !.connection = engineConn,
                   !.result = IF caller.kind = "load" /\ mounted = "ChatPanel"
                                 /\ (engineDb = 0 \/ engineConn = 0)
                              THEN "DuckDB not initialized"
                              ELSE "ok"]

(* a caller calls initialize, or a load method that calls it when the engine is
   incomplete: the call runs up to its first await *)
callInitialize ==
    /\ \E c \in 1..MaxCallers, kind \in {"initialize", "load"} :
        /\ initCallers[c].pc = "idle"
        /\ LET caller == [IdleCaller EXCEPT !.kind = kind]
           IN  initCallers' =
                 [initCallers EXCEPT ![c] =
                    IF kind = "load" /\ ~loadNeedsInitialize THEN Returns(caller)
                    ELSE IF alreadyInitialized THEN Returns(caller)
                    ELSE [caller EXCEPT !.pc = "selectBundle"]]
    /\ UNCHANGED <<engineDb, engineConn, engineInitialized, enginesCreated>>
    /\ UNCHANGED notEngineVars

(* selectBundle resolves: the worker and the database are created, db is assigned,
   instantiate is awaited *)
bundleSelected ==
    /\ \E c \in 1..MaxCallers :
        /\ initCallers[c].pc = "selectBundle"
        /\ initCallers' = [initCallers EXCEPT ![c].pc = "instantiate"]
    /\ enginesCreated' = enginesCreated + 1
    /\ engineDb' = enginesCreated + 1
    /\ UNCHANGED <<engineConn, engineInitialized>>
    /\ UNCHANGED notEngineVars

(* instantiate resolves: db.connect() is called on the db assigned by then *)
instantiated ==
    /\ \E c \in 1..MaxCallers :
        /\ initCallers[c].pc = "instantiate"
        /\ initCallers' = [initCallers EXCEPT ![c].pc = "connect",
                                               ![c].connectTo = engineDb]
    /\ UNCHANGED <<engineDb, engineConn, engineInitialized, enginesCreated>>
    /\ UNCHANGED notEngineVars

(* connect resolves: connection is assigned (App.tsx: and initialized set), and
   initialize returns *)
connected ==
    /\ \E c \in 1..MaxCallers :
        /\ initCallers[c].pc = "connect"
        /\ engineConn' = initCallers[c].connectTo
        /\ initCallers' =
              [initCallers EXCEPT ![c] =
                 [initCallers[c] EXCEPT !.pc = "returned",
                                        !.connection = initCallers[c].connectTo,
                                        !.result = "ok"]]
    /\ engineInitialized' = IF mounted = "App" THEN TRUE ELSE engineInitialized
    /\ UNCHANGED <<engineDb, enginesCreated>>
    /\ UNCHANGED notEngineVars

(* the caller goes on with its work and may call again *)
callerContinues ==
    /\ \E c \in 1..MaxCallers :
        /\ initCallers[c].pc = "returned"
        /\ initCallers' = [initCallers EXCEPT ![c] = IdleCaller]
    /\ UNCHANGED <<engineDb, engineConn, engineInitialized, enginesCreated>>
    /\ UNCHANGED notEngineVars

InitEngine ==
    /\ mounted \in {"ChatPanel", "App"}
    /\ InitConversation({1})
    /\ InitKeys(FALSE)
    /\ dbTable = {}
    /\ InitDbIdle
    /\ InitEngineIdle
    /\ InitWireIdle
    /\ InitLoadIdle
    /\ InitPageIdle

NextEngine ==
    \/ callInitialize
    \/ bundleSelected
    \/ instantiated
    \/ connected
    \/ callerContinues

SpecEngine == InitEngine /\ [][NextEngine]_vars

----------------------------------------------------------------------------
(* Reading the streamed response: streamClaudeMessage (claudeService.ts) and the
   stream loop of handleChat (App.tsx).  The response body is a sequence of
   units: each content_block_delta event is the line "data: " "{delta" text "}"
   followed by a line feed; the network hands the body over in chunks cut at
   any unit boundary. *)

DeltaTexts == {"x", "y"}

eventLine(text) == <<"data: ", "{delta", text, "}", "\n">>

RECURSIVE wireOf(_)
wireOf(events) ==
    IF events = <<>> THEN <<>> ELSE eventLine(Head(events)) \o wireOf(Tail(events))

lowest(cuts) == CHOOSE c \in cuts : \A d \in cuts : c <= d

(* the chunks reader.read() returns when the body is cut after the units in cuts *)
RECURSIVE divide(_, _)
divide(wire, cuts) ==
    IF wire = <<>> THEN <<>>
    ELSE IF cuts = {} THEN <<wire>>
    ELSE LET c == lowest(cuts)
         IN  <<SubSeq(wire, 1, c)>>
               \o divide(SubSeq(wire, c + 1, Len(wire)), {d - c : d \in cuts \ {c}})

(* chunk.split('\n') *)
RECURSIVE splitLines(_, _)
splitLines(chunk, line) ==
    IF chunk = <<>> THEN <<line>>
    ELSE IF Head(chunk) = "\n" THEN <<line>> \o splitLines(Tail(chunk), <<>>)
    ELSE splitLines(Tail(chunk), Append(line, Head(chunk)))

(* JSON.parse(data) succeeds on a whole object only *)
parses(data) == Len(data) = 3 /\ data[1] = "{delta" /\ data[3] = "}"

(* the texts one line contributes: a line that starts with 'data: ' and parses as
   a content_block_delta gives its text, every other line is skipped *)
lineTexts(line) ==
    IF line # <<>> /\ Head(line) = "data: " /\ parses(Tail(line))
    THEN <<Tail(line)[2]>>
    ELSE <<>>

RECURSIVE linesTexts(_)
linesTexts(lines) ==
    IF lines = <<>> THEN <<>> ELSE lineTexts(Head(lines)) \o linesTexts(Tail(lines))

(* the texts the loop body takes from one network chunk *)
chunkTexts(chunk) == linesTexts(splitLines(chunk, <<>>))

calls(name, n) == [i \in 1..n |-> name]

invoke(names) == IF mounted = "ChatPanel" THEN callbackTrace \o names ELSE callbackTrace

(* the fetch settles: a response with a body to read, or a response that is not ok,
   a missing body or a rejected fetch, which all end in the catch block *)
fetchSettled ==
    /\ streamPc = "fetch"
    /\ \E ok \in BOOLEAN :
        IF ok
        THEN streamPc' = "reading" /\ UNCHANGED callbackTrace
        ELSE streamPc' = "failed" /\ callbackTrace' = invoke(<<"onError">>)
    /\ UNCHANGED <<wireEvents, wireChunks, fullResponse, committedText>>
    /\ UNCHANGED notWireVars

(* reader.read() returns a chunk: its lines are parsed, each delta text is added to
   fullResponse and passed to onToken *)
readChunk ==
    /\ streamPc = "reading"
    /\ wireChunks # <<>>
    /\ LET texts == chunkTexts(Head(wireChunks))
       IN  /\ fullResponse' = fullResponse \o texts
           /\ callbackTrace' = invoke(calls("onToken", Len(texts)))
    /\ wireChunks' = Tail(wireChunks)
    /\ UNCHANGED <<wireEvents, streamPc, committedText>>
    /\ UNCHANGED notWireVars

(* reader.read() rejects (the connection drops): the catch block *)
readFailed ==
    /\ streamPc = "reading"
    /\ wireChunks # <<>>
    /\ streamPc' = "failed"
    /\ callbackTrace' = invoke(<<"onError">>)
    /\ UNCHANGED <<wireEvents, wireChunks, fullResponse, committedText>>
    /\ UNCHANGED notWireVars

(* were onComplete to throw into the try block: the catch block then calls onError *)
readDoneCompleteThrows ==
    /\ streamPc = "reading"
    /\ wireChunks = <<>>
    /\ streamPc' = "completed"
    /\ committedText' = fullResponse
    /\ callbackTrace' = invoke(<<"onComplete", "onError">>)
    /\ UNCHANGED <<wireEvents, wireChunks, fullResponse>>
    /\ UNCHANGED notWireVars

(* reader.read() reports done: onComplete(fullResponse) (App.tsx: the assistant
   message is built from fullContent) *)
readDone ==
    /\ streamPc = "reading"
    /\ wireChunks = <<>>
    /\ streamPc' = "completed"
    /\ committedText' = fullResponse
    /\ callbackTrace' = invoke(<<"onComplete">>)
    /\ UNCHANGED <<wireEvents, wireChunks, fullResponse>>
    /\ UNCHANGED notWireVars

Events == UNION {[1..n -> DeltaTexts] : n \in 0..MaxEvents}

Divisions(wire) ==
    {cuts \in SUBSET (1..(Len(wire) - 1)) : Cardinality(cuts) <= MaxCuts}

InitStream ==
    /\ mounted \in {"ChatPanel", "App"}
    /\ InitConversation({1})
    /\ InitKeys(FALSE)
    /\ dbTable = {}
    /\ InitDbIdle
    /\ InitEngineIdle
    /\ InitLoadIdle
    /\ InitPageIdle
    /\ wireEvents \in Events
    /\ \E cuts \in Divisions(wireOf(wireEvents)) :
          wireChunks = divide(wireOf(wireEvents), cuts)
    /\ fullResponse = <<>>
    /\ streamPc = "fetch"
    /\ callbackTrace = <<>>
    /\ committedText = <<>>

NextStream ==
    \/ fetchSettled
    \/ readChunk
    \/ readFailed
    \/ readDone

SpecStream == InitStream /\ [][NextStream]_vars

----------------------------------------------------------------------------
(* The busy flags: a chat turn, a dataset load and a key validation, each started
   by the user and settled by its external call.  The three run side by side on
   separate state; a session exercises one of them while the other two have used
   the steps the bounds allow.  Every external call that was started eventually
   resolves or rejects: weak fairness on the steps that deliver a chunk, end a
   stream, return a summary, or settle a validation or a load. *)

InitBusy ==
    /\ mounted \in {"ChatPanel", "App"}
    /\ \/ /\ InitConversationAt(InitLengths, 0)
          /\ InitKeysAt(TRUE, MaxKeyAttempts)
          /\ InitLoadAt(MaxLoads)
       \/ /\ InitConversationAt({1}, MaxNew - 1)
          /\ InitKeysAt(FALSE, 0)
          /\ InitLoadAt(MaxLoads)
       \/ /\ mounted = "App"
          /\ InitConversationAt({1}, MaxNew - 1)
          /\ InitKeysAt(FALSE, MaxKeyAttempts)
          /\ InitLoadAt(0)
    /\ dbTable = {}
    /\ InitDbIdle
    /\ InitEngineIdle
    /\ InitWireIdle
    /\ InitPageIdle

NextBusy == Next \/ NextKey \/ NextLoad

FairBusy ==
    /\ WF_vars(onToken)
    /\ WF_vars(onComplete)
    /\ WF_vars(summarizeResolved \/ summarizeRejected)
    /\ WF_vars(streamChunk)
    /\ WF_vars(streamDone)
    /\ WF_vars(summaryReturned)
    /\ WF_vars(setApiKeySettled)
    /\ WF_vars(handleSaveApiKeySettled)
    /\ WF_vars(loadDataSettled)

SpecBusy == InitBusy /\ [][NextBusy]_vars /\ FairBusy

----------------------------------------------------------------------------
(* Properties of the conversation memory *)

storeSummaryStored == conversationSummary # Null /\ conversationSummary # <<>>
sameSummary(a, b) == a = b \/ (Falsy(a) /\ Falsy(b))
lastOf(s, k) == [i \in 1..k |-> apiEntry(s[Len(s) - k + i])]

(* C1: in the chat store, whatever calls were made, messages never holds more
   than MAX_CHAT_HISTORY (50) messages *)
C1_MessagesBounded == Len(messages) <= 50

(* an append at full capacity has evicted the greeting: 50 messages are stored and
   the oldest is a user message *)
C1_Witness == Len(messages) = 50 /\ messages[1].role = "user" /\ lastOp.op = "onComplete"

(* C2: in App.tsx, conversationMemory.recentMessages never holds more than
   MAX_STORED_MESSAGES (50) messages *)
C2_RecentMessagesBounded == Len(conversationMemory.recentMessages) <= 50

(* C3: shouldSummarize() is true exactly when more than 15 messages are stored and
   (no summary is stored or more than 5600 tokens were used); onComplete issues a
   summarization request exactly in that case; evaluating it changes no state *)
C3_ShouldSummarizeIff ==
    LET expected == Len(messages) > 15 /\ (~storeSummaryStored \/ totalTokensUsed > 5600)
    IN  /\ shouldSummarize(messages, conversationSummary, totalTokensUsed) <=> expected
        /\ Len(messages) <= 15 =>
               ~shouldSummarize(messages, conversationSummary, totalTokensUsed)
        /\ lastOp.op = "onCompleteSummarize" => expected
        /\ lastOp.op = "onComplete" => ~expected

(* a turn completed with a summary stored and the token budget exceeded, and asked
   for a new summary *)
C3_Witness ==
    lastOp.op = "onCompleteSummarize" /\ storeSummaryStored /\ totalTokensUsed > 5600

(* C4: getMessagesForAPI() returns the summary entry followed by the last 6 stored
   messages when a non-empty summary exists and more than 10 messages are stored,
   and the last min(20, n) stored messages otherwise; never more than 20 entries,
   in stored order; handleSend sends that list followed by the user's message *)
C4_MessagesForAPI ==
    LET n == Len(messages)
        out == getMessagesForAPI(messages, conversationSummary)
        expected ==
            IF storeSummaryStored /\ n > 10
            THEN <<[role |-> "user",
                    content |-> <<"[Previous conversation summary: ">>
                                \o conversationSummary \o <<"]">>]>>
                 \o lastOf(messages, 6)
            ELSE lastOf(messages, IF n < 20 THEN n ELSE 20)
    IN  /\ out = expected
        /\ Len(out) <= 20
        /\ lastOp.op = "handleSend" => SubSeq(request, 1, Len(request) - 1) = expected

(* a request was sent with a summary stored and more than 10 messages *)
C4_Witness == lastOp.op = "handleSend" /\ storeSummaryStored /\ Len(messages) > 20

(* C5: immediately after a clear-conversation action the conversation holds exactly
   one synthetic assistant message, the summary is empty, the token counter is zero
   and the chat error is cleared *)
C5_ClearResets ==
    /\ lastOp.op = "clearMessages" =>
          /\ Len(messages) = 1
          /\ messages[1].role = "assistant"
          /\ messages[1].content = <<"cleared">>
          /\ ~storeSummaryStored
          /\ totalTokensUsed = 0
          /\ error = Null
    /\ lastOp.op = "clearChat" =>
          /\ Len(conversationMemory.recentMessages) = 1
          /\ conversationMemory.recentMessages[1].role = "assistant"
          /\ conversationMemory.recentMessages[1].content = <<"cleared">>
          /\ conversationMemory.summary = <<>>

(* a conversation with a summary and counted tokens was cleared while a turn and a
   summarization were in flight *)
C5_Witness ==
    /\ lastOp.op = "clearMessages"
    /\ lastOp.tokens > 0 /\ lastOp.before = <<"s1">>
    /\ pendingSummaries > 0 /\ isLoading

(* C6: after a summarization request that succeeds (returns a text), the stored
   summary is non-empty and is exactly that text: the previous summary is replaced *)
C6_SummaryReplaced ==
    lastOp.op = "summarizeOk" =>
        /\ lastOp.text # <<>>
        /\ mounted = "ChatPanel" => conversationSummary = lastOp.text
        /\ mounted = "App" => conversationMemory.summary = lastOp.text

(* a summarization succeeded while another, different summary was stored *)
C6_Witness ==
    /\ lastOp.op = "summarizeOk"
    /\ mounted = "ChatPanel"
    /\ lastOp.before # Null /\ lastOp.before # <<>> /\ lastOp.before # lastOp.text

(* C7: a step in which a summarization request fails (network error, non-OK
   status, malformed or empty response) leaves the stored summary as it was before
   the step, sets no chat error and adds no message to the stored conversation *)
C7_FailedSummaryKeepsSummary ==
    [][lastOp'.op \in {"summarizeFailed", "summarizeEmpty"} =>
          /\ mounted = "ChatPanel" =>
                /\ sameSummary(conversationSummary', conversationSummary)
                /\ error' = error
                /\ messages' = messages
          /\ mounted = "App" =>
                sameSummary(conversationMemory'.summary, conversationMemory.summary)]_vars

(* C8: totalTokensUsed never decreases from one state to the next, except in a
   clearMessages step, which sets it to zero *)
C8_TokensMonotonic ==
    [][\/ totalTokensUsed' >= totalTokensUsed
       \/ lastOp'.op = "clearMessages" /\ totalTokensUsed' = 0]_vars

(* tokens were counted in two turns, and the conversation was then cleared *)
C8_Witness == lastOp.op = "clearMessages" /\ lastOp.tokens = 6000 /\ totalTokensUsed = 0

(* C9: key validation accepts the candidate key (stored, marked validated) when the
   validation request answers HTTP 200 or 429, rejects it as invalid on 401, and
   for any other status surfaces an error carrying the provider's message without
   storing the key *)
C9_KeyValidationByStatus ==
    LET response == lastKeyOp.response
        stored == IF mounted = "ChatPanel" THEN apiKey ELSE appApiKey
        shown == IF mounted = "ChatPanel" THEN validationError ELSE keyError
    IN  (lastKeyOp.op = "settled" /\ response.kind = "response") =>
            IF response.status \in {200, 429}
            THEN stored = lastKeyOp.key /\ (mounted = "ChatPanel" => isValidated)
            ELSE /\ stored = lastKeyOp.before
                 /\ shown # Null
                 /\ (response.status # 401 /\ response.json /\ response.message # <<>>) =>
                        shown = response.message

(* C10: for every dataset and every combination of keyword, area and category
   filters, getContractCount returns exactly the number of rows searchContracts
   yields for the same filters once all its pages are read, whatever the limit *)
C10_CountMatchesSearch == dbPc = "done" => dbCount = Len(dbRows)

----------------------------------------------------------------------------
(* Properties of the contract search *)

(* the keyword condition of the service that answered the call *)
keywordMatches(service, row, query) ==
    IF service = "App"
    THEN \/ likeQuery(row.award_title, query)
         \/ likeQuery(row.awardee_name, query)
         \/ likeQuery(row.organization_name, query)
         \/ likeQuery(row.notice_title, query)
    ELSE \/ likeColumn(row.award_title, query)
         \/ likeColumn(row.awardee_name, query)
         \/ likeColumn(row.organization_name, query)

(* the rows that satisfy every provided filter; an empty filter excludes nothing *)
satisfyingAll(service, table, options) ==
    {row \in table :
        /\ (options.query = <<>> \/ keywordMatches(service, row, options.query))
        /\ (options.area = <<>> \/ row.area_of_delivery = options.area)
        /\ (options.category = <<>> \/ row.business_category = options.category)}

(* C11: a search call returns rows that satisfy every provided filter (an empty
   query, area or category is no filter), in descending order of contract amount,
   and they are the slice [offset, offset + limit) of such an ordering of all the
   satisfying rows *)
C11_SearchSlice ==
    dbPage.service # "none" =>
        LET M == satisfyingAll(dbPage.service, dbTable, dbPage.options)
            rows == dbPage.rows
            k == Len(rows)
        IN  /\ \A i \in 1..k : rows[i] \in M
            /\ \A i, j \in 1..k :
                  i < j => /\ rows[i] # rows[j]
                           /\ rows[i].contract_amount >= rows[j].contract_amount
            /\ k = Min(dbPage.limit, Max(Cardinality(M) - dbPage.offset, 0))
            /\ \E s \in [1..Cardinality(M) -> M] :
                  /\ \A i, j \in 1..Cardinality(M) :
                        i < j => /\ s[i] # s[j]
                                 /\ s[i].contract_amount >= s[j].contract_amount
                  /\ \A i \in 1..k : rows[i] = s[dbPage.offset + i]
            /\ dbPage.options = NoOptions => M = dbTable

(* a page past the first was returned under a keyword and an area filter that
   exclude a row of the table *)
C11_Witness ==
    /\ dbPage.service = "App"
    /\ dbPage.offset > 0 /\ Len(dbPage.rows) > 0
    /\ dbPage.options.query # <<>> /\ dbPage.options.area # <<>>
    /\ \E row \in dbTable : row.area_of_delivery # dbPage.options.area

(* text contains value as a substring, ignoring case *)
containsIgnoringCase(text, value) ==
    \E i \in 0..(Len(text) - Len(value)) :
        SubSeq(LOWER(text), i + 1, i + Len(value)) = LOWER(value)

(* the rows whose filtered fields contain every provided filter value, the keyword
   in one of the given columns *)
substringMatching(table, options, keywordColumns) ==
    {row \in table :
        /\ options.query # <<>> =>
              \E column \in keywordColumns : containsIgnoringCase(row[column], options.query)
        /\ options.area # <<>> => containsIgnoringCase(row.area_of_delivery, options.area)
        /\ options.category # <<>> =>
              containsIgnoringCase(row.business_category, options.category)}

keywordColumnsOf(service) ==
    IF service = "App"
    THEN {"award_title", "awardee_name", "organization_name", "notice_title"}
    ELSE {"award_title", "awardee_name", "organization_name"}

(* C12: keyword, area and category filters of search and count match by
   case-insensitive substring: the rows a search call returns are rows whose
   filtered fields contain the filter values ignoring case, all of them when the
   call returns the whole result, and the count is the number of such rows *)
C12_SubstringFilters ==
    /\ dbPage.service # "none" =>
          LET expected == substringMatching(dbTable, dbPage.options,
                                            keywordColumnsOf(dbPage.service))
              rows == dbPage.rows
          IN  /\ \A i \in 1..Len(rows) : rows[i] \in expected
              /\ (dbPage.offset = 0 /\ Len(rows) < dbPage.limit) =>
                    {rows[i] : i \in 1..Len(rows)} = expected
    /\ dbPc # "idle" =>
          dbCount = Cardinality(substringMatching(dbTable, dbOptions,
                                                  keywordColumnsOf("count")))

(* C13: a load, through any entry point, whose decoding fails because of a
   compression scheme (Snappy, GZIP) throws an error whose message contains the
   name of that scheme, and returns no row count *)
C13_CompressionErrorNamesScheme ==
    (lastLoad.entry # "none" /\ ~lastLoad.outcome.ok /\ lastLoad.outcome.cause # "none") =>
        /\ lastLoad.thrown
        /\ includes(lastLoad.message, lastLoad.outcome.cause)

----------------------------------------------------------------------------
(* Properties of a chat turn *)

conversation == IF mounted = "ChatPanel" THEN messages ELSE conversationMemory.recentMessages
summaryStored == IF mounted = "ChatPanel" THEN conversationSummary ELSE conversationMemory.summary
summarizeAbove == IF mounted = "ChatPanel" THEN SUMMARIZE_LENGTH ELSE SUMMARIZE_THRESHOLD

(* C14: a clear is never undone: once the conversation was cleared, whatever work
   was in flight, the post-clear greeting stays the first message, every other
   message is newer than it (no removed message reappears), and no summary is
   stored while the conversation is too short to have been summarized since *)
C14_ClearNeverUndone ==
    clearCount > 0 =>
        /\ Len(conversation) >= 1
        /\ conversation[1].content = <<"cleared">>
        /\ \A j \in 2..Len(conversation) : conversation[j].id > conversation[1].id
        /\ Len(conversation) <= summarizeAbove => Falsy(summaryStored)

(* C15: after the keyword or area filter changes on a page other than the first,
   the page index is the first page, and once the query that change triggered
   completes the rows displayed are the first page (offset 0) of the results for
   the new filter *)
C15_FilterChangeShowsFirstPage ==
    /\ (pageOp.op = "filterChanged" /\ pageOp.fromPage > 0) => currentPage = 0
    /\ (pageOp.op = "filterSettled" /\ pageOp.fromPage > 0) =>
          contracts \in searchContracts(dbTable, pageOp.options, PAGE_SIZE, 0)
    /\ (pageOp.op \in {"setFilters", "resetFilters"} /\ pageOp.fromPage > 1) =>
          /\ storeCurrentPage = 1
          /\ usePaginatedContracts = SubSeq(filteredContracts, 1,
                                            Min(storePageSize, Len(filteredContracts)))

(* the entries of a request that carry the given content as a user entry *)
occurrences(entries, content) ==
    Cardinality({i \in 1..Len(entries) :
                    entries[i] = [role |-> "user", content |-> content]})

(* C16: the message list ChatPanel.handleSend sends for a turn contains the newly
   submitted user message exactly once, as its last entry, and has at most as many
   entries as getMessagesForAPI returns at most *)
C16_RequestHoldsUserMessageOnce ==
    (mounted = "ChatPanel" /\ lastOp.op = "handleSend") =>
        /\ request # <<>>
        /\ request[Len(request)] = [role |-> "user", content |-> userText(nextId - 1)]
        /\ occurrences(request, userText(nextId - 1)) = 1
        /\ Len(request) <= API_PLAIN_RECENT

(* C17: at most one chat completion request is in flight at any time; a submission
   made while a turn is loading issues no request, appends no message and leaves
   the request in flight as it is *)
C17_OneRequestInFlight ==
    [][/\ requestsInFlight' <= 1
       /\ lastOp'.op \in {"handleSendIgnored", "handleChatIgnored"} =>
             /\ requestsInFlight' = requestsInFlight
             /\ request' = request
             /\ conversation' = conversation
             /\ fullContent' = fullContent]_vars

C17_Witness ==
    /\ lastOp.op \in {"handleSendIgnored", "handleChatIgnored"}
    /\ requestsInFlight = 1
    /\ fullContent # <<>>

(* the messages the running turn knows: the stored list, and in App.tsx also the
   list handleChat captured when it started *)
knownMessages ==
    IF mounted = "ChatPanel" THEN messages
    ELSE conversationMemory.recentMessages \o closure.updatedMessages
turnMessages == IF mounted = "ChatPanel" THEN messages ELSE closure.updatedMessages
newEntries(before, after) ==
    {i \in 1..Len(after) : \A j \in 1..Len(before) : before[j].id # after[i].id}
isTurnUserMessage(message) ==
    message.role = "user" /\ message.content = request[Len(request)].content

(* C18: while the response stream of a turn is open a chunk adds nothing to the
   stored conversation; when the stream ends successfully exactly one new message
   is committed, an assistant message holding the full accumulated text, after the
   last chunk of the response, placed last and right after the user's message of
   the turn *)
C18_CommitAfterStream ==
    [][/\ lastOp'.op \in {"onToken", "streamChunk"} =>
             /\ conversation' = conversation
             /\ Len(fullContent') > Len(fullContent)
       /\ \/ lastOp'.op \in {"onComplete", "onCompleteSummarize", "turnCommitted"}
          \/ appPc = "summarizing" /\ appPc' = "idle"
          => LET after == conversation'
                 last == Len(after)
             IN  /\ last >= 1
                 /\ newEntries(knownMessages, after) = {last}
                 /\ after[last].role = "assistant"
                 /\ after[last].content = fullContent
                 /\ fullContent = responseText(request)
                 /\ streamingContent' = <<>>
                 /\ isTurnUserMessage(turnMessages[Len(turnMessages)]) =>
                       /\ last >= 2
                       /\ isTurnUserMessage(after[last - 1])]_vars

C18_Witness ==
    /\ lastOp.op \in {"onComplete", "onCompleteSummarize", "turnCommitted",
                       "summarizeOk", "summarizeFailed", "summarizeEmpty"}
    /\ requestsInFlight = 0 /\ ~isLoading /\ ~appIsLoading
    /\ Len(conversation) >= 3
    /\ conversation[Len(conversation)].role = "assistant"
    /\ conversation[Len(conversation) - 1].role = "user"
    /\ conversation[Len(conversation)].content =
          <<"a", conversation[Len(conversation) - 1].content[2]>>
    /\ conversation[Len(conversation)].id > restored

isErrorMessage(message) ==
    /\ message.role = "assistant"
    /\ \E text \in ErrorTexts : message.content = errorText(text)

(* C19: a failed chat request ends the turn with exactly one synthetic assistant
   message describing the error appended to the conversation, after the user's
   message, which is kept; the partially streamed text is discarded *)
C19_FailureAppendsErrorMessage ==
    [][lastOp'.op \in {"onError", "chatFailed"} =>
          /\ Len(conversation') = Len(conversation) + 1
          /\ SubSeq(conversation', 1, Len(conversation)) = conversation
          /\ isErrorMessage(conversation'[Len(conversation')])
          /\ streamingContent' = <<>>
          /\ \A i \in 1..Len(conversation') : conversation'[i].content # fullContent
          /\ ~isLoading' /\ ~appIsLoading']_vars

(* C20: every started chat turn, dataset load and key validation eventually returns
   its busy flag to false, whether the request succeeds or fails, provided the
   external call eventually resolves or rejects *)
C20_BusyFlagsReturn ==
    /\ isLoading ~> ~isLoading
    /\ appIsLoading ~> ~appIsLoading
    /\ isDataLoading ~> ~isDataLoading
    /\ isValidating ~> ~isValidating
    /\ isValidatingKey ~> ~isValidatingKey

C20_Witness ==
    \/ lastOp.op \in {"onError", "chatFailed"} /\ ~isLoading /\ ~appIsLoading
    \/ lastLoad.entry \in {"buffer", "url"} /\ lastLoad.thrown /\ ~isDataLoading
    \/ /\ lastKeyOp.op = "settled" /\ lastKeyOp.response.kind = "reject"
       /\ ~isValidating /\ ~isValidatingKey

(* the BUFFER_WINDOW_SIZE most recent messages of a conversation *)
bufferWindow(all) == sliceFrom(all, -BUFFER_WINDOW_SIZE)

(* C21: the transcript handed to a summarization request contains none of the
   BUFFER_WINDOW_SIZE most recent messages of the conversation at the moment the
   summarization is triggered *)
C21_TranscriptSparesBufferWindow ==
    summaryRequest.issued =>
        \A i \in 1..Len(summaryRequest.transcript) :
            \A j \in 1..Len(bufferWindow(summaryRequest.conversation)) :
                summaryRequest.transcript[i] # bufferWindow(summaryRequest.conversation)[j]

(* what an append that evicts leaves: the cap most recent messages of the list as
   appended to, in their order *)
mostRecent(before, after, cap) ==
    /\ after # <<>>
    /\ Len(after) = cap
    /\ after = sliceFrom(Append(before, after[Len(after)]), -cap)

(* C22: when an append makes the stored message count exceed the cap, the messages
   kept are exactly the 50 most recent ones in their original order, and the
   eviction changes neither the summary nor the token counter (the usage a
   completed turn reports is added by addTokenUsage, the summary of a committed
   turn is the one its summarization returned) *)
C22_EvictionKeepsMostRecent ==
    [][/\ (/\ mounted = "ChatPanel"
           /\ lastOp'.op \in {"handleSend", "onComplete", "onCompleteSummarize"}
           /\ Len(messages) + 1 > MAX_CHAT_HISTORY) =>
             /\ mostRecent(messages, messages', MAX_CHAT_HISTORY)
             /\ conversationSummary' = conversationSummary
             /\ totalTokensUsed' - totalTokensUsed \in
                   IF lastOp'.op = "handleSend" THEN {0} ELSE UsageChoices
       /\ (/\ mounted = "App"
           /\ lastOp'.op \in {"handleChat", "chatFailed"}
           /\ Len(conversationMemory.recentMessages) + 1 > MAX_STORED_MESSAGES) =>
             /\ mostRecent(conversationMemory.recentMessages,
                           conversationMemory'.recentMessages, MAX_STORED_MESSAGES)
             /\ conversationMemory'.summary = conversationMemory.summary
       /\ (/\ mounted = "App"
           /\ appPc # "idle" /\ appPc' = "idle" /\ lastOp'.op # "chatFailed"
           /\ Len(closure.updatedMessages) + 1 > MAX_STORED_MESSAGES) =>
             /\ mostRecent(closure.updatedMessages, conversationMemory'.recentMessages,
                           MAX_STORED_MESSAGES)
             /\ conversationMemory'.summary \in {closure.summary} \cup SummaryTexts]_vars

----------------------------------------------------------------------------
(* Properties of the data store *)

(* the contracts the current keyword filter lets through *)
passesFilters(row) ==
    \/ storeFilters.searchQuery = <<>>
    \/ containsIgnoringCase(searchableText(row), storeFilters.searchQuery)

inSortOrder(rows, direction) ==
    \A i, j \in 1..Len(rows) :
        i < j => IF direction = "asc"
                 THEN rows[i].contract_amount <= rows[j].contract_amount
                 ELSE rows[i].contract_amount >= rows[j].contract_amount

elements(rows) == {rows[i] : i \in 1..Len(rows)}

breakdownOf(stats, rows, groupOf(_)) ==
    /\ DOMAIN stats = {groupOf(rows[i]) : i \in 1..Len(rows)}
    /\ \A group \in DOMAIN stats :
          LET members == SelectSeq(rows, LAMBDA c : groupOf(c) = group)
          IN  /\ stats[group].contractCount = Len(members)
              /\ stats[group].totalValue = totalValue(members)

categoryOf(row) == row.business_category
areaOf(row) == row.area_of_delivery

(* C23: in every reachable state of the data store, filteredContracts is contracts
   restricted by the current filters and ordered by the current sort key and
   direction, and categoryStats / areaStats are the per-category / per-area
   breakdowns of filteredContracts *)
C23_FilteredViewConsistent ==
    mounted = "ChatPanel" =>
        /\ elements(filteredContracts) = {r \in elements(storeContracts) : passesFilters(r)}
        /\ Len(filteredContracts) = Cardinality(elements(filteredContracts))
        /\ inSortOrder(filteredContracts, storeFilters.sortDirection)
        /\ breakdownOf(categoryStats, filteredContracts, categoryOf)
        /\ breakdownOf(areaStats, filteredContracts, areaOf)

(* paginate's totalPages: Math.ceil(totalItems / pageSize) *)
totalPages(rows, pageSize) == (Len(rows) + pageSize - 1) \div pageSize

pageExists ==
    /\ 1 <= storeCurrentPage
    /\ storeCurrentPage <= Max(1, totalPages(filteredContracts, storePageSize))

(* C30: in the data store currentPage always designates an existing page of
   filteredContracts: it does in the store as constructed, and each of setContracts,
   setFilters, resetFilters, setPageSize and setPage to a page that exists leaves it
   so *)
C30_CurrentPageExists ==
    [][(/\ mounted = "ChatPanel"
        /\ pageExists
        /\ pageOp'.op \in {"setContracts", "setFilters", "resetFilters", "setPageSize",
                           "setPage"}) => pageExists']_vars

----------------------------------------------------------------------------
(* Properties of the query engine *)

(* C24: the query engine is initialized once: whatever the interleaving of
   overlapping initialize and load calls, at most one engine instance is ever
   created (exactly one once a call has returned), and no caller returns from
   initialization while the connection is still missing *)
C24_EngineInitializedOnce ==
    /\ enginesCreated <= 1
    /\ \A c \in 1..MaxCallers :
          initCallers[c].pc = "returned" =>
              /\ enginesCreated = 1
              /\ initCallers[c].connection # 0

----------------------------------------------------------------------------
(* Properties of a failing setApiKey *)

(* the step at which a setApiKey call of the key store returns false *)
setApiKeyFails == mounted = "ChatPanel" /\ lastKeyOp'.returned = "false"

(* C25: a setApiKey call that fails (empty key, key not starting with 'sk-ant-',
   rejection by the provider, network error) returns false, sets a validation
   error, and leaves the stored apiKey, isValidated and lastValidated as they
   were; an empty or badly formatted key is rejected without a network request.
   Every way setApiKey ends without storing the key is such a failing step. *)
C25_FailedSetApiKeyKeepsKey ==
    [][/\ setApiKeyFails =>
            /\ validationError' # Null
            /\ apiKey' = apiKey
            /\ isValidated' = isValidated
            /\ lastValidated' = lastValidated
            /\ lastKeyOp'.op \in {"rejectedEmpty", "rejectedFormat"} =>
                   /\ ~isValidating /\ ~isValidating'
                   /\ keyCandidate' = keyCandidate
       /\ (mounted = "ChatPanel" /\ lastKeyOp'.op \in {"rejectedEmpty", "rejectedFormat"})
              => lastKeyOp'.returned = "false"
       /\ (mounted = "ChatPanel" /\ lastKeyOp'.op = "settled"
              /\ (validateApiKey(lastKeyOp'.response).thrown
                     \/ ~validateApiKey(lastKeyOp'.response).value))
              => lastKeyOp'.returned = "false"
      ]_vars

(* a key was stored and validated, and a later setApiKey was rejected by the
   provider (401): the stored key is still there, with the error set *)
C25_Witness ==
    /\ mounted = "ChatPanel"
    /\ lastKeyOp.op = "settled" /\ lastKeyOp.returned = "false"
    /\ lastKeyOp.response.kind = "response" /\ lastKeyOp.response.status = 401
    /\ lastKeyOp.before # Null /\ apiKey = lastKeyOp.before /\ isValidated
    /\ validationError # Null

----------------------------------------------------------------------------
(* Properties of the file upload *)

(* the step at which handleFileUpload rejects the file *)
uploadIsRejected ==
    /\ lastLoad'.entry = "uploadRejected"
    /\ loadAttempts' = loadAttempts + 1
    /\ ~isDataLoading'

(* C26: whenever an uploaded file is rejected by validation (unsupported
   extension, larger than 500MB, CSV) or its load fails, the application ends in
   a state in which the error message is shown: dataError is set and the error
   view's display condition is true, also when a dataset was loaded before *)
C26_UploadErrorShown ==
    [][/\ uploadIsRejected => (dataError' # Null /\ errorViewShown')
       /\ (loadEntry = "file" /\ loadEntry' = "none" /\ ~dataLoaded')
            => (dataError' # Null /\ errorViewShown')
      ]_vars

----------------------------------------------------------------------------
(* Properties of the streamed response *)

(* C27: the assistant text committed for a turn equals the in-order concatenation
   of every content_block_delta text the server sent, however the response byte
   stream is divided into network chunks, an event line split across two chunks
   included *)
C27_CommittedTextIsWholeStream ==
    streamPc = "completed" => committedText = wireEvents

terminalCallbacks == {"onComplete", "onError"}

(* C28: each call to streamClaudeMessage invokes exactly one of onComplete or
   onError, exactly once, after every onToken call of that request: a terminal
   callback is the last call of the trace, the call has ended exactly when the
   trace ends with one, and so onToken is never invoked after it *)
C28_OneTerminalCallbackLast ==
    mounted = "ChatPanel" =>
        LET n == Len(callbackTrace)
        IN  /\ \A i \in 1..n : callbackTrace[i] \in terminalCallbacks => i = n
            /\ (streamPc \in {"completed", "failed"})
                  <=> (n > 0 /\ callbackTrace[n] \in terminalCallbacks)
            /\ streamPc = "completed" => callbackTrace[n] = "onComplete"
            /\ streamPc = "failed" => callbackTrace[n] = "onError"

(* a stream of two events was read to its end: two onToken calls, then onComplete *)
C28_Witness ==
    /\ mounted = "ChatPanel"
    /\ streamPc = "completed"
    /\ callbackTrace = <<"onToken", "onToken", "onComplete">>

----------------------------------------------------------------------------
(* Properties of overlapping searches *)

(* C29: once all in-flight search requests have completed, the contracts displayed
   and the total count are those of the most recently issued search (its keyword,
   area and page), whatever the order in which the responses arrived *)
C29_LatestSearchDisplayed ==
    (mounted = "App" /\ dataLoaded /\ inFlight = <<>>) =>
        /\ contracts \in searchContracts(dbTable, lastIssued.options, PAGE_SIZE,
                                         lastIssued.offset)
        /\ totalFilteredCount = getContractCount(dbTable, lastIssued.options)

====
